---------------------------- MODULE Spec2Model ----------------------------
(***************************************************************************)
(* A model of the parametric gopuram generator: the parameter state and    *)
(* its validation (state.js), the tower synthesis (buildTower.js) and the  *)
(* scene driver (main.js).                                                 *)
(*                                                                         *)
(* Numbers.  Knob values are held in thousandths (Q = 1000 per unit), so   *)
(* that 0.125 is 125 and 2500 is 2500000; every knob of `ranges` is then   *)
(* an integer.  A JavaScript value that is not a finite number is a record *)
(* with its own type tag.                                                  *)
(***************************************************************************)
EXTENDS Integers, Sequences, FiniteSets, TLC

VARIABLES
    \* ---- clampState called on an arbitrary input object (state.js)
    rawState,       \* the object handed to clampState
    validState,     \* the object clampState returned
    clampPc,        \* "input" while the input is made up, "done" after the call
    \* ---- detailForPos called for one stored state and one distance (main.js)
    lodSt,          \* the stored state the classification reads
    lodDist,        \* camPos.distanceTo(towerPos), in thousandths
    lodUsed,        \* the two thresholds the distance was compared against
    lodDetail,      \* the detail level returned
    lodPc,          \* "input" before the call, "done" after it
    \* ---- one perimeter tower placed by placeTowers (main.js, buildTower.js)
    twSt,           \* the clamped state the tower is built from
    twDist,         \* the distance from the tower's anchor to the viewer
    twNoise,        \* the noise samples noise2d returns along z = 0
    twDetail,       \* the detail level the tower was built with
    twTower,        \* the group buildTower returned
    twPc,           \* "input" before the placement, "done" after it
    \* ---- columnPositions called on one face (buildTower.js)
    colSpan,        \* the face span, in whole units
    colCount,       \* the column count, in thousandths
    colPositions,   \* the positions returned
    colPc,          \* "input" before the call, "done" after it
    \* ---- profileToShape called on one profile (buildTower.js)
    profIn,         \* the profile handed in: a sequence of points <<x, y>>
    profTarget,     \* the target: width, depth (units) and inset (percent)
    profShape,      \* the shape returned
    profPc,         \* "input" before the call, "done" after it
    \* ---- the profile text round trip (main.js)
    codecPoints,    \* the profile P handed to pointsToString
    codecText,      \* pointsToString(P), a sequence of characters
    codecParsed,    \* parseProfileText(codecText)
    codecText2,     \* pointsToString(codecParsed)
    codecPc,        \* "input", "serialized", "parsed", "reserialized"
    \* ---- the application (main.js)
    state,          \* the shared knob state
    camera,         \* camera.position, whole units
    temple,         \* the tree `temple` refers to, or NoTree for null
    scene,          \* ids of the complex roots that are children of the scene
    disposed,       \* ids of the trees disposeObject has run on
    overlay,        \* overlay.textContent
    hasFittedView,
    lastBounds,     \* id of the tree lastBounds was taken from, 0 for null
    lastDetailKey,  \* the recorded detail signature, <<>> for null
    rebuildTimer,   \* the timer handle held: 0 for null, else a timer id
    timers,         \* the browser's pending timers: [id, left], left in ms
    lastCamCheck,   \* [pos, age]: age is now - lastCamCheck.time in ms, capped
    sinceEdit,      \* ms since the last parameter-change event, capped
    rebuildCount,   \* calls of rebuild so far
    appPc,          \* "init", "gui" (line 69 done), "running" (module loaded)
    \* ---- buildTempleComplex called on one state and viewer position (main.js)
    cxSt,           \* the clamped state
    cxCam,          \* the viewer position, whole units
    cxTowers,       \* the towers of the group returned
    cxPc,           \* "input" before the call, "done" after it
    \* ---- the profile editor (main.js)
    edPoints,       \* state.profilePoints
    edModelText,    \* profileModel.text
    edTextarea,     \* textarea.value
    edDirty         \* the text area was typed in since its last change event

clampVars == <<rawState, validState, clampPc>>

lodVars == <<lodSt, lodDist, lodUsed, lodDetail, lodPc>>

appVars == <<state, camera, temple, scene, disposed, overlay, hasFittedView,
             lastBounds, lastDetailKey, rebuildTimer, timers, lastCamCheck,
             sinceEdit, rebuildCount, appPc>>

codecVars == <<codecPoints, codecText, codecParsed, codecText2, codecPc>>

profVars == <<profIn, profTarget, profShape, profPc>>

colVars == <<colSpan, colCount, colPositions, colPc>>

towerVars == <<twSt, twDist, twNoise, twDetail, twTower, twPc>>

complexVars == <<cxSt, cxCam, cxTowers, cxPc>>

editorVars == <<edPoints, edModelText, edTextarea, edDirty>>

vars ==
    <<rawState, validState, clampPc,
      lodSt, lodDist, lodUsed, lodDetail, lodPc,
      twSt, twDist, twNoise, twDetail, twTower, twPc,
      colSpan, colCount, colPositions, colPc,
      profIn, profTarget, profShape, profPc,
      codecPoints, codecText, codecParsed, codecText2, codecPc,
      state, camera, temple, scene, disposed, overlay, hasFittedView,
      lastBounds, lastDetailKey, rebuildTimer, timers, lastCamCheck,
      sinceEdit, rebuildCount, appPc,
      cxSt, cxCam, cxTowers, cxPc,
      edPoints, edModelText, edTextarea, edDirty>>

-----------------------------------------------------------------------------
(* Arithmetic helpers (Math.min, Math.max, Math.abs).                      *)

Min(a, b) == IF a <= b THEN a ELSE b

Max(a, b) == IF a >= b THEN a ELSE b

Abs(a) == IF a < 0 THEN -a ELSE a

-----------------------------------------------------------------------------
(* state.js: ranges, defaultState, clampState.                             *)

\* Thousandths per unit.
Q == 10 * 10 * 10

Knobs ==
    {"scaleX", "scaleY", "scaleZ", "striations", "noiseIntensity", "baseScale",
     "doorHeightOffset", "columnCount", "visibleTiers", "wallThickness",
     "wallSpacing", "innerWalls", "shrineProtrude", "shrineColorIndex",
     "lodNear", "lodFar", "beadEnabled", "beadDistance"}

\* min, max, step and default of every knob, in thousandths.
ranges ==
    [scaleX           |-> [min |-> 500,    max |-> 2000,    step |-> 100,   default |-> 1000],
     scaleY           |-> [min |-> 500,    max |-> 2000,    step |-> 100,   default |-> 1000],
     scaleZ           |-> [min |-> 500,    max |-> 2000,    step |-> 100,   default |-> 1000],
     striations       |-> [min |-> 3000,   max |-> 15000,   step |-> 1000,  default |-> 12000],
     noiseIntensity   |-> [min |-> 0,      max |-> 30000,   step |-> 1000,  default |-> 14000],
     baseScale        |-> [min |-> 500,    max |-> 2000,    step |-> 100,   default |-> 1200],
     doorHeightOffset |-> [min |-> 0,      max |-> 1000,    step |-> 50,    default |-> 550],
     columnCount      |-> [min |-> 2000,   max |-> 10000,   step |-> 1000,  default |-> 8000],
     visibleTiers     |-> [min |-> 1000,   max |-> 15000,   step |-> 1000,  default |-> 15000],
     wallThickness    |-> [min |-> 40000,  max |-> 200000,  step |-> 5000,  default |-> 40000],
     wallSpacing      |-> [min |-> 150000, max |-> 800000,  step |-> 10000, default |-> 600000],
     innerWalls       |-> [min |-> 0,      max |-> 3000,    step |-> 1000,  default |-> 1000],
     shrineProtrude   |-> [min |-> 0,      max |-> 500,     step |-> 10,    default |-> 125],
     shrineColorIndex |-> [min |-> 0,      max |-> 4000,    step |-> 1000,  default |-> 0],
     lodNear          |-> [min |-> 300000, max |-> 2000000, step |-> 50000, default |-> 1250000],
     lodFar           |-> [min |-> 700000, max |-> 3000000, step |-> 50000, default |-> 2500000],
     beadEnabled      |-> [min |-> 0,      max |-> 1000,    step |-> 1000,  default |-> 0],
     beadDistance     |-> [min |-> 200000, max |-> 2000000, step |-> 50000, default |-> 700000]]

\* A finite JavaScript number.
Num(n) == [type |-> "number", v |-> n]

\* The values that are not finite numbers: typeof "number" but not finite
\* (NaN, +/-Infinity), another type (a string), or no property at all.
NonFinite ==
    {[type |-> t, v |-> 0] : t \in {"NaN", "Infinity", "-Infinity", "string", "undefined"}}

\* typeof value === "number" && Number.isFinite(value)
IsFiniteNumber(r) == r.type = "number"

defaultState == [k \in Knobs |-> Num(ranges[k].default)]

\* A clampState that forgets the lower bound.
clampState_NoLowerBound(raw) ==
    [k \in Knobs |->
        IF IsFiniteNumber(raw[k])
        THEN Num(Min(ranges[k].max, raw[k].v))
        ELSE defaultState[k]]

\* next = {...defaultState}; every knob that holds a finite number is clamped
\* into [min, max], every other knob keeps the default.
clampState(raw) ==
    [k \in Knobs |->
        IF IsFiniteNumber(raw[k])
        THEN Num(Min(ranges[k].max, Max(ranges[k].min, raw[k].v)))
        ELSE defaultState[k]]

-----------------------------------------------------------------------------
(* main.js: detailForPos.  The distance is the value of line 548; the      *)
(* thresholds are those of lines 546-547.                                  *)

\* The gap of lines 546-547 (50 units).
LodGap == 50000

\* The knob k of a state object, as a number.
Knob(st, k) == st[k].v

\* The thresholds with neither guard.
detailThresholds_Unguarded(st) ==
    [near |-> Knob(st, "lodNear"), far |-> Knob(st, "lodFar")]

\* near = Math.min(st.lodNear, st.lodFar - 50); far = Math.max(st.lodFar, near + 50)
detailThresholds(st) ==
    LET near == Min(Knob(st, "lodNear"), Knob(st, "lodFar") - LodGap)
    IN  [near |-> near, far |-> Max(Knob(st, "lodFar"), near + LodGap)]

\* A classification whose first comparison is <= .
detailForDist_Inclusive(dist, st) ==
    LET t == detailThresholds(st)
    IN  IF dist <= t.near THEN "high"
        ELSE IF dist < t.far THEN "medium"
        ELSE "low"

\* if (dist < near) return "high"; if (dist < far) return "medium"; return "low"
detailForDist(dist, st) ==
    LET t == detailThresholds(st)
    IN  IF dist < t.near THEN "high"
        ELSE IF dist < t.far THEN "medium"
        ELSE "low"

-----------------------------------------------------------------------------
(* buildTower.js: noise2d and buildTower.  A noise sample is k / NoiseDen  *)
(* with k in 0..NoiseDen, a value of [0, 1] ("ImprovedNoise returns -1..1; *)
(* normalize to 0..1"); the generator itself is a library, so the field is *)
(* an input: noise[i] is the sample noise2d(i * 0.3, 0), repeating with    *)
(* the length of the sequence.                                             *)

NoiseDen == 4

\* noise2d(i * 0.3, 0), as the numerator k of k / NoiseDen
noise2d(noise, i) == noise[(i % Len(noise)) + 1]

\* Sub-steps with Math.round in place of Math.floor.
subStepsBase_Rounded(k) == 2 + ((4 * k + NoiseDen) \div (2 * NoiseDen))

\* 2 + Math.floor(noise2d(i * 0.3, 0) * 2)
subStepsBase(k) == 2 + ((2 * k) \div NoiseDen)

\* Sub-steps that Medium does not reduce.
subStepsFor_Full(detail, k) ==
    IF detail = "low" THEN 1 ELSE subStepsBase(k)

\* detail === "low" ? 1 : detail === "medium"
\*     ? Math.max(1, Math.floor(subStepsBase * 0.8)) : subStepsBase
subStepsFor(detail, k) ==
    IF detail = "low" THEN 1
    ELSE IF detail = "medium" THEN Max(1, (subStepsBase(k) * 8) \div 10)
    ELSE subStepsBase(k)

\* tiers = Math.max(1, striations)
tierCount(st) == Max(Q, Knob(st, "striations"))

\* A loop that forgets the visibleTiers cap.
TierRealized_NoCap(st, i) == i * Q < tierCount(st)

\* The loop condition i < tiers && i < visibleTiers
TierRealized(st, i) ==
    /\ i * Q < tierCount(st)
    /\ i * Q < Knob(st, "visibleTiers")

\* isTopRendered = i === Math.min(tiers, visibleTiers) - 1
isTopRendered(st, i) == i * Q = Min(tierCount(st), Knob(st, "visibleTiers")) - Q

\* Ornaments whose mini-shrines are gated by the tier alone.
layerOrnaments_ShrinesAtLow(st, detail, beadVisible, top) ==
    [pilasters   |-> detail # "low",
     niches      |-> detail # "low",
     stripes     |-> detail # "low",
     statueRow   |-> detail = "high",
     miniShrines |-> ~top,
     columns     |-> detail # "low",
     columnCount |-> IF detail # "low" THEN Knob(st, "columnCount") ELSE 0,
     cornice     |-> TRUE,
     beadRow     |-> detail = "high" /\ Knob(st, "beadEnabled") # 0 /\ beadVisible]

\* The ornament classes one layer receives (the ifs of the inner loop).
layerOrnaments(st, detail, beadVisible, top) ==
    [pilasters   |-> detail # "low",
     niches      |-> detail # "low",
     stripes     |-> detail # "low",
     statueRow   |-> detail = "high",
     miniShrines |-> ~top /\ detail # "low",
     columns     |-> detail # "low",
     columnCount |-> IF detail # "low" THEN Knob(st, "columnCount") ELSE 0,
     cornice     |-> TRUE,
     beadRow     |-> detail = "high" /\ Knob(st, "beadEnabled") # 0 /\ beadVisible]

\* The palette has five entries.
PaletteSize == 5

\* Positions of addMiniShrines are in eightieths of the layer's width (x)
\* and depth (z): miniW = 0.15 width = 12/80 width.
MiniDen == 80

\* miniW = width * 0.15 and miniD = depth * 0.15, in eightieths
MiniSize == (15 * MiniDen) \div 100

\* protrudeX = miniW * 0.75 and protrudeZ = miniD * 0.75, in eightieths
MiniProtrude == (75 * MiniSize) \div 100

\* addMiniShrines(container, width, height, depth, protrudeFactor, colorHex):
\* the four boxes it adds, each with the face it stands on, its centre and
\* its size along x and z.  protrudeFactor is read by no expression.
addMiniShrines(protrudeFactor) ==
    << [face |-> "-X", x |-> -(MiniDen \div 2) - MiniSize \div 2 + MiniProtrude, z |-> 0,
        sizeX |-> MiniSize, sizeZ |-> MiniSize],
       [face |-> "+X", x |-> MiniDen \div 2 + MiniSize \div 2 - MiniProtrude, z |-> 0,
        sizeX |-> MiniSize, sizeZ |-> MiniSize],
       [face |-> "-Z", x |-> 0, z |-> -(MiniDen \div 2) - MiniSize \div 2 + MiniProtrude,
        sizeX |-> MiniSize, sizeZ |-> MiniSize],
       [face |-> "+Z", x |-> 0, z |-> MiniDen \div 2 + MiniSize \div 2 - MiniProtrude,
        sizeX |-> MiniSize, sizeZ |-> MiniSize] >>

\* The layers of tier i: one per sub-step j = 0 .. subSteps - 1.
tierLayers(st, detail, beadVisible, noise, i) ==
    LET subSteps == subStepsFor(detail, noise2d(noise, i))
        ornaments == layerOrnaments(st, detail, beadVisible, isTopRendered(st, i))
    IN  [jj \in 1..subSteps |->
            [tier       |-> i,
             sub        |-> jj - 1,
             subSteps   |-> subSteps,
             colorIndex |-> (i + jj - 1) % PaletteSize,
             ornaments  |-> ornaments,
             shrines    |-> IF ornaments.miniShrines
                            THEN addMiniShrines(Knob(st, "shrineProtrude"))
                            ELSE <<>>]]

\* for (let i = 0; i < tiers && i < visibleTiers; i++) { ... group.add(layer) }
RECURSIVE towerLoop(_, _, _, _, _, _)
towerLoop(st, detail, beadVisible, noise, i, layers) ==
    IF TierRealized(st, i)
    THEN towerLoop(st, detail, beadVisible, noise, i + 1,
                   layers \o tierLayers(st, detail, beadVisible, noise, i))
    ELSE layers

\* const baseW = 250 * scaleX, in whole units
BaseWidth == 250

\* const baseD = 180 * scaleZ, in whole units
BaseDepth == 180

baseW(st) == (BaseWidth * Knob(st, "scaleX")) \div Q

baseD(st) == (BaseDepth * Knob(st, "scaleZ")) \div Q

\* const totalH = 720 * scaleY, in whole units
TotalHeight == 720

totalH(st) == (TotalHeight * Knob(st, "scaleY")) \div Q

\* buildTower(state, detail, beadVisible): the layers added to the group, in
\* order.
\* together with the sizes the tower is built to.
buildTower(st, detail, beadVisible, noise) ==
    [layers |-> towerLoop(st, detail, beadVisible, noise, 0, <<>>),
     baseW  |-> baseW(st),
     baseD  |-> baseD(st),
     totalH |-> totalH(st)]

\* The shrine's state without the cap on visibleTiers.
shrineState_NoCap(st) ==
    [st EXCEPT !["scaleX"] = Num(600), !["scaleY"] = Num(600), !["scaleZ"] = Num(600)]

\* const s = { ...state, scaleX: 0.6, scaleY: 0.6, scaleZ: 0.6,
\*             visibleTiers: Math.min(state.visibleTiers, 6) }
shrineState(st) ==
    [st EXCEPT !["scaleX"] = Num(600), !["scaleY"] = Num(600), !["scaleZ"] = Num(600),
               !["visibleTiers"] = Num(Min(Knob(st, "visibleTiers"), 6 * Q))]

\* state.beadEnabled && state.beadDistance > 0
shrineBead(st) == Knob(st, "beadEnabled") # 0 /\ Knob(st, "beadDistance") > 0

\* buildTower(s, "medium", state.beadEnabled && state.beadDistance > 0)
centralShrine(st, noise) == buildTower(shrineState(st), "medium", shrineBead(st), noise)

\* placeTowers, for one anchor dist away from the viewer:
\* beadVisible = state.beadEnabled && dist < state.beadDistance && detail !== "low"
beadVisibleFor(st, dist, detail) ==
    /\ Knob(st, "beadEnabled") # 0
    /\ dist < Knob(st, "beadDistance")
    /\ detail # "low"

-----------------------------------------------------------------------------
(* buildTower.js: miniShrineClearance and columnPositions.  A position is  *)
(* the exact fraction num / den (den > 0) of the value the code computes,  *)
(* tagged with the branch that pushed it.  With a = -span/2 + 8 and        *)
(* b = span/2 - 8 = -a, lerp(a, b, t) = (1 - t) a + t b = a (1 - 2 t), and *)
(* t = k / max(1, count - 1).                                              *)

\* The loop bound for count in thousandths: the k with k < count.
ColumnIndexes(count) == {k \in 0..((count + Q - 1) \div Q) : k * Q < count}

\* Math.max(1, count - 1), in thousandths
ColumnDivisor(count) == Max(Q, count - Q)

\* THREE.MathUtils.lerp(-span / 2 + 8, span / 2 - 8, k / Math.max(1, count - 1))
ColumnLerp(span, count, k) ==
    [num  |-> (16 - span) * (ColumnDivisor(count) - 2 * k * Q),
     den  |-> 2 * ColumnDivisor(count),
     from |-> "loop"]

\* Math.abs(p) >= miniShrineClearance(span), the clearance being span * 0.18
OutsideClearance(span, p) == Abs(p.num) * 50 >= 9 * span * p.den

\* The positions the loop keeps, in the order of k.
RECURSIVE ColumnLoop(_, _, _, _)
ColumnLoop(span, count, k, positions) ==
    IF k * Q < count
    THEN LET p == ColumnLerp(span, count, k)
         IN  ColumnLoop(span, count, k + 1,
                        IF OutsideClearance(span, p) THEN Append(positions, p) ELSE positions)
    ELSE positions

\* span * f / 100, pushed by the fallback branch `from`
EdgePosition(span, f, from) == [num |-> span * f, den |-> 100, from |-> from]

\* columnPositions without the single-survivor branch.
columnPositions_NoMirror(span, count) ==
    LET positions == ColumnLoop(span, count, 0, <<>>)
    IN  IF Len(positions) = 0
        THEN <<EdgePosition(span, -35, "empty"), EdgePosition(span, 35, "empty")>>
        ELSE positions

\* columnPositions(span, count)
columnPositions(span, count) ==
    LET positions == ColumnLoop(span, count, 0, <<>>)
    IN  IF Len(positions) = 0
        THEN <<EdgePosition(span, -35, "empty"), EdgePosition(span, 35, "empty")>>
        ELSE IF Len(positions) = 1
        THEN Append(positions,
                    IF positions[1].num > 0
                    THEN EdgePosition(span, -40, "mirror")
                    ELSE EdgePosition(span, 40, "mirror"))
        ELSE positions

-----------------------------------------------------------------------------
(* buildTower.js: fractalOutline and profileToShape; state.js:             *)
(* defaultProfile.  Profile coordinates are held in millionths, so the     *)
(* six-decimal default profile is exact.  A fraction is [n, d] with d > 0. *)
(* A shape holds its vertices unscaled, with the factor of each axis       *)
(* beside them: vertex v stands for the point                              *)
(*   (v[1] / unit * sx.n / sx.d,  v[2] / unit * sy.n / sy.d).              *)
(* Two scaled vertices are equal exactly when the unscaled ones are, the   *)
(* factors being positive.                                                 *)

\* Millionths per profile unit.
PQ == Q * Q

\* The 1e-3 of Math.max(1e-3, ...), in millionths.
ProfileEps == Q

defaultProfile ==
    << <<29746287, 17357673>>,   <<29746287, 20080446>>,   <<22735149, 20080446>>,
       <<22735149, 22122525>>,   <<-21305693, 22122525>>,  <<-21305693, 20080446>>,
       <<-28316830, 20080446>>,  <<-28316830, 17357673>>,  <<-31039602, 17357673>>,
       <<-31039602, -17357673>>, <<-28316830, -17357673>>, <<-28316830, -20080446>>,
       <<-21305693, -20080446>>, <<-21305693, -22122525>>, <<22735149, -22122525>>,
       <<22735149, -20080446>>,  <<29746287, -20080446>>,  <<29746287, -17357673>>,
       <<32469059, -17357673>>,  <<32469059, 17357673>>,   <<29746287, 17357673>>,
       <<29746287, 20080446>>,   <<22735149, 20080446>>,   <<22735149, 22122525>>,
       <<-21305693, 22122525>>,  <<-21305693, 20080446>>,  <<-28316830, 20080446>>,
       <<-28316830, 17357673>>,  <<-31039602, 17357673>> >>

\* a.n / a.d < b.n / b.d for fractions of non-negative numerators, compared
\* by their continued fractions so that no product is formed.
RECURSIVE FracLess(_, _)
FracLess(a, b) ==
    LET qa == a.n \div a.d
        qb == b.n \div b.d
        ra == a.n % a.d
        rb == b.n % b.d
    IN  IF qa # qb THEN qa < qb
        ELSE IF rb = 0 THEN FALSE
        ELSE IF ra = 0 THEN TRUE
        ELSE FracLess([n |-> b.d, d |-> rb], [n |-> a.d, d |-> ra])

\* Math.min of two fractions
FracMin(a, b) == IF FracLess(b, a) THEN b ELSE a

RECURSIVE Pow(_, _)
Pow(b, e) == IF e = 0 THEN 1 ELSE b * Pow(b, e - 1)

\* unique = []; forEach(v => { if (!unique.length || !v.equals(last)) unique.push(v) })
RECURSIVE DropRepeats(_, _, _)
DropRepeats(pts, n, unique) ==
    IF n > Len(pts) THEN unique
    ELSE DropRepeats(pts, n + 1,
                     IF Len(unique) = 0 \/ pts[n] # unique[Len(unique)]
                     THEN Append(unique, pts[n])
                     ELSE unique)

\* A loop that is never closed.
CloseLoop_Never(unique) == unique

\* if (unique.length && !unique[0].equals(unique[unique.length - 1]))
\*     unique.push(unique[0].clone())
CloseLoop(unique) ==
    IF Len(unique) > 0 /\ unique[1] # unique[Len(unique)]
    THEN Append(unique, unique[1])
    ELSE unique

\* fractalOutline(width, depth, levels, shrink), shrink in hundredths: the
\* half-extents are xs[i] = (width / 2) * shrink^i, held as the numerators
\* width * shrink^i * 100^(levels - 1 - i) over 2 * 100^(levels - 1).
fractalOutline(width, depth, levels, shrink) ==
    LET xs(i) == width * Pow(shrink, i) * Pow(100, levels - 1 - i)
        zs(i) == depth * Pow(shrink, i) * Pow(100, levels - 1 - i)
        up(m) == (m - 1) \div 2
        down(m) == levels - 1 - ((m - 1) \div 2)
        top == [m \in 1..(2 * (levels - 1)) |->
                   IF m % 2 = 1 THEN <<xs(up(m)), -zs(up(m) + 1)>>
                   ELSE <<-xs(up(m) + 1), -zs(up(m) + 1)>>]
        left == [m \in 1..(2 * (levels - 1)) |->
                   IF m % 2 = 1 THEN <<-xs(down(m)), zs(down(m) - 1)>>
                   ELSE <<-xs(down(m) - 1), zs(down(m) - 1)>>]
        bottom == [m \in 1..(2 * (levels - 1)) |->
                   IF m % 2 = 1 THEN <<xs(up(m) + 1), zs(up(m))>>
                   ELSE <<xs(up(m) + 1), zs(up(m) + 1)>>]
        right == [m \in 1..(2 * (levels - 1)) |->
                   IF m % 2 = 1 THEN <<xs(down(m)), -zs(down(m) - 1)>>
                   ELSE <<xs(down(m) - 1), -zs(down(m) - 1)>>]
        pts == << <<xs(0), -zs(0)>> >> \o top
               \o << <<-xs(levels - 1), -zs(levels - 1)>> >> \o left
               \o << <<-xs(0), zs(0)>> >> \o bottom
               \o << <<xs(levels - 1), zs(levels - 1)>> >> \o right
    IN  CloseLoop(DropRepeats(pts, 1, <<>>))

\* The set of values a sequence of numbers holds.
Coordinates(pts, axis) == {pts[n][axis] : n \in 1..Len(pts)}

SetMin(S) == CHOOSE x \in S : \A y \in S : x <= y

SetMax(S) == CHOOSE x \in S : \A y \in S : x >= y

\* A size shrunk by twice the inset.
EffectiveSize_TwiceInset(size, inset) == Max(1, size * (100 - 2 * inset) * 10)

\* Math.max(1e-3, size * (1 - insetFrac)), in thousandths of a unit, for a
\* size in whole units and an inset in percent.
EffectiveSize(size, inset) == Max(1, size * (100 - inset) * 10)

\* effective / span: thousandths over millionths.
ScaleRatio(effective, span) == [n |-> effective * Q, d |-> span]

NoShape ==
    [vertices |-> <<>>, unit |-> 1, sx |-> [n |-> 1, d |-> 1], sy |-> [n |-> 1, d |-> 1],
     rotated |-> FALSE, fallback |-> FALSE]

\* profileToShape(profilePoints, width, depth, fallbackSteps, insetFrac)
profileToShape(profilePoints, width, depth, fallbackSteps, inset) ==
    LET pts == IF Len(profilePoints) > 0 THEN profilePoints ELSE defaultProfile
        minX == SetMin(Coordinates(pts, 1))
        maxX == SetMax(Coordinates(pts, 1))
        minY == SetMin(Coordinates(pts, 2))
        maxY == SetMax(Coordinates(pts, 2))
        spanX == Max(ProfileEps, maxX - minX)
        spanY == Max(ProfileEps, maxY - minY)
        effectiveW == EffectiveSize(width, inset)
        effectiveD == EffectiveSize(depth, inset)
        scaleA == [sx |-> ScaleRatio(effectiveW, spanX), sy |-> ScaleRatio(effectiveD, spanY),
                   min |-> FracMin(ScaleRatio(effectiveW, spanX), ScaleRatio(effectiveD, spanY)),
                   rotated |-> FALSE]
        scaleB == [sx |-> ScaleRatio(effectiveW, spanY), sy |-> ScaleRatio(effectiveD, spanX),
                   min |-> FracMin(ScaleRatio(effectiveW, spanY), ScaleRatio(effectiveD, spanX)),
                   rotated |-> TRUE]
        chosen == IF FracLess(scaleA.min, scaleB.min) THEN scaleB ELSE scaleA
        \* px = p.x - cx and py = p.y - cy, doubled: cx = (minX + maxX) / 2
        px2(n) == 2 * pts[n][1] - minX - maxX
        py2(n) == 2 * pts[n][2] - minY - maxY
        scaled == [n \in 1..Len(pts) |->
                      IF chosen.rotated THEN <<py2(n), -px2(n)>> ELSE <<px2(n), py2(n)>>]
        unique == CloseLoop(DropRepeats(scaled, 1, <<>>))
    IN  IF Len(unique) < 4
        THEN [vertices |-> fractalOutline(width, depth, fallbackSteps, 82),
              unit     |-> 2 * Pow(100, fallbackSteps - 1),
              sx       |-> [n |-> 1, d |-> 1],
              sy       |-> [n |-> 1, d |-> 1],
              rotated  |-> FALSE,
              fallback |-> TRUE]
        ELSE [vertices |-> unique,
              unit     |-> 2 * PQ,
              sx       |-> chosen.sx,
              sy       |-> chosen.sy,
              rotated  |-> chosen.rotated,
              fallback |-> FALSE]

\* tierSteps(state): always 4
tierSteps == 4

\* the 0.02 of buildProfiledPrism and buildSteppedTier, in percent
PrismInset == 2

\* buildProfiledPrism(width, depth, height, material, profilePoints, steps):
\* the outline that is extruded; rotateX turns its y axis into -z, which
\* keeps the extent on each axis.
buildProfiledPrism(width, depth, profilePoints, steps) ==
    profileToShape(profilePoints, width, depth, steps, PrismInset)

-----------------------------------------------------------------------------
(* main.js: pointsToString and parseProfileText.  A text is a sequence of  *)
(* characters.  A coordinate is a sign and a magnitude, [neg, mag], the    *)
(* magnitude counted in units of one digit below the six that toFixed(6)   *)
(* keeps, so that rounding happens and -0 is a value of its own.           *)

\* the 6 of toFixed(6)
FixedDigits == 6

\* decimal digits a coordinate of the model carries
CoordDigits == FixedDigits + 1

Coord(neg, mag) == [type |-> "number", neg |-> neg, mag |-> mag]

NotANumber == [type |-> "NaN", neg |-> FALSE, mag |-> 0]

\* the signed value of a coordinate, -0 and +0 being the same quantity
Value(x) == IF x.neg THEN -x.mag ELSE x.mag

DigitChars == <<"0", "1", "2", "3", "4", "5", "6", "7", "8", "9">>

IsDigit(c) == \E d \in 1..10 : DigitChars[d] = c

DigitOf(c) == (CHOOSE d \in 1..10 : DigitChars[d] = c) - 1

RECURSIVE DigitsOf(_)
DigitsOf(n) ==
    IF n < 10 THEN <<DigitChars[n + 1]>>
    ELSE Append(DigitsOf(n \div 10), DigitChars[(n % 10) + 1])

RECURSIVE DigitsValue(_)
DigitsValue(ds) ==
    IF Len(ds) = 0 THEN 0
    ELSE 10 * DigitsValue(SubSeq(ds, 1, Len(ds) - 1)) + DigitOf(ds[Len(ds)])

RECURSIVE PadLeft(_, _)
PadLeft(ds, width) == IF Len(ds) >= width THEN ds ELSE PadLeft(<<"0">> \o ds, width)

\* Number.prototype.toFixed(6): "-" when x < 0 (which -0 is not), then the
\* integer n with n / 10^6 nearest to |x|, the larger n on a tie, written
\* with at least 7 digits and a point before the last 6.
toFixed(x) ==
    LET n == (x.mag + (Pow(10, CoordDigits - FixedDigits) \div 2))
                 \div Pow(10, CoordDigits - FixedDigits)
        m == PadLeft(DigitsOf(n), FixedDigits + 1)
        k == Len(m) - FixedDigits
        body == SubSeq(m, 1, k) \o <<".">> \o SubSeq(m, k + 1, Len(m))
    IN  IF x.neg /\ x.mag > 0 THEN <<"-">> \o body ELSE body

\* points.map(p => `${x.toFixed(6)}, ${y.toFixed(6)}`).join("\n")
RECURSIVE pointsToString(_)
pointsToString(points) ==
    IF Len(points) = 0 THEN <<>>
    ELSE LET last == points[Len(points)]
             line == toFixed(last[1]) \o <<",", " ">> \o toFixed(last[2])
         IN  IF Len(points) = 1 THEN line
             ELSE pointsToString(SubSeq(points, 1, Len(points) - 1)) \o <<"\n">> \o line

\* String.prototype.split on a class of one-character separators: the
\* pieces between separators, empty ones included.
Split(text, seps) ==
    LET cuts == {n \in 1..Len(text) : text[n] \in seps}
        cutAt(k) == IF k = 0 THEN 0
                    ELSE IF k > Cardinality(cuts) THEN Len(text) + 1
                    ELSE CHOOSE c \in cuts : Cardinality({d \in cuts : d <= c}) = k
    IN  [k \in 1..(Cardinality(cuts) + 1) |-> SubSeq(text, cutAt(k - 1) + 1, cutAt(k) - 1)]

WhiteSpace == {" ", "\t", "\n", "\r"}

\* String.prototype.trim
RECURSIVE Trim(_)
Trim(t) ==
    IF Len(t) = 0 THEN t
    ELSE IF t[1] \in WhiteSpace THEN Trim(Tail(t))
    ELSE IF t[Len(t)] \in WhiteSpace THEN Trim(SubSeq(t, 1, Len(t) - 1))
    ELSE t

\* .filter(Boolean) on strings
NonEmpty(pieces) == SelectSeq(pieces, LAMBDA t : Len(t) > 0)

\* Number(text) for a decimal literal: an optional "-", digits, and an
\* optional point with digits, of at most CoordDigits fraction digits;
\* anything else that these texts can hold is NaN.
Number(t) ==
    LET minus == Len(t) > 0 /\ t[1] = "-"
        body == IF minus THEN Tail(t) ELSE t
        dots == {n \in 1..Len(body) : body[n] = "."}
        dot == IF dots = {} THEN Len(body) + 1 ELSE SetMin(dots)
        whole == SubSeq(body, 1, dot - 1)
        frac == SubSeq(body, dot + 1, Len(body))
        wellFormed ==
            /\ Cardinality(dots) <= 1
            /\ \A n \in 1..Len(whole) : IsDigit(whole[n])
            /\ \A n \in 1..Len(frac) : IsDigit(frac[n])
            /\ Len(whole) + Len(frac) > 0
            /\ Len(frac) <= CoordDigits
    IN  IF wellFormed
        THEN Coord(minus, DigitsValue(whole) * Pow(10, CoordDigits)
                          + DigitsValue(frac) * Pow(10, CoordDigits - Len(frac)))
        ELSE NotANumber

\* lines.forEach(line => { ... }) of parseProfileText
RECURSIVE ParseLines(_, _, _)
ParseLines(lines, n, pts) ==
    IF n > Len(lines) THEN pts
    ELSE LET parts == NonEmpty(Split(lines[n], {" ", ",", "\t"}))
         IN  IF Len(parts) < 2 THEN ParseLines(lines, n + 1, pts)
             ELSE LET x == Number(parts[1])
                      y == Number(parts[2])
                  IN  IF x.type = "number" /\ y.type = "number"
                      THEN ParseLines(lines, n + 1, Append(pts, <<x, y>>))
                      ELSE ParseLines(lines, n + 1, pts)

\* parseProfileText(text)
parseProfileText(text) ==
    LET pieces == Split(text, {"\n", ";"})
        lines == NonEmpty([n \in 1..Len(pieces) |-> Trim(pieces[n])])
    IN  ParseLines(lines, 1, <<>>)

-----------------------------------------------------------------------------
(* main.js: buildTempleComplex, placeTowers, placeCentralShrine,           *)
(* computeDetailSignature, detailForPos and rebuild.  Positions and        *)
(* lengths of the complex are held in tenths of a unit, which is exact for *)
(* knob values on their steps; distances are compared by their squares.    *)

\* tenths per unit
Tenths == 2 * 5

\* a knob in tenths of a unit
KnobTenths(st, k) == Knob(st, k) \div (Q \div Tenths)

\* const baseSpan = 1500
baseSpan == 1500

\* Math.max(0, Math.floor(state.innerWalls))
innerCount(st) == Max(0, Knob(st, "innerWalls") \div Q)

\* span of inner enclosure i, in tenths: Math.max(300, outerSpan - wallSpacing * (i + 1))
InnerSpan(st, i) ==
    Max(300 * Tenths, baseSpan * Tenths - KnobTenths(st, "wallSpacing") * (i + 1))

\* A loop that never breaks.
RealizedInner_NoBreak(st) == 0..(innerCount(st) - 1)

\* The inner enclosures the loop realizes: it breaks at the first span <= 300.
RealizedInner(st) ==
    {i \in 0..(innerCount(st) - 1) :
        \A j \in 0..i : InnerSpan(st, j) > 300 * Tenths}

\* offset of the towers of enclosure e (0 the outer one, i + 1 the inner
\* enclosure i), in tenths: span / 2 + thickness
EnclosureOffset(st, e) ==
    IF e = 0
    THEN (baseSpan * Tenths) \div 2 + KnobTenths(st, "wallThickness")
    ELSE InnerSpan(st, e - 1) \div 2
         + (KnobTenths(st, "wallThickness") * Max(50, 100 - 8 * e)) \div 100

\* tScale of enclosure e, in percent: 1 for the outer, Math.max(0.6, 1 - 0.1 * (i + 1))
EnclosureScale(e) == IF e = 0 THEN 100 ELSE Max(60, 100 - 10 * e)

\* north, south, east, west
towerPositions(offset) ==
    << <<0, 0, offset>>, <<0, 0, -offset>>, <<offset, 0, 0>>, <<-offset, 0, 0>> >>

\* squared distance between a camera position (whole units) and a tower
\* position (tenths), in tenths squared
DistSq(camPos, tPos) ==
    (camPos[1] * Tenths - tPos[1]) * (camPos[1] * Tenths - tPos[1])
    + (camPos[2] * Tenths - tPos[2]) * (camPos[2] * Tenths - tPos[2])
    + (camPos[3] * Tenths - tPos[3]) * (camPos[3] * Tenths - tPos[3])

\* dist < bound, for a bound in thousandths
Nearer(distSq, bound) ==
    /\ bound > 0
    /\ distSq < (bound \div (Q \div Tenths)) * (bound \div (Q \div Tenths))

\* detailForPos(camPos, towerPos, st)
detailForPos(camPos, towerPos, st) ==
    LET t == detailThresholds(st)
    IN  IF Nearer(DistSq(camPos, towerPos), t.near) THEN "high"
        ELSE IF Nearer(DistSq(camPos, towerPos), t.far) THEN "medium"
        ELSE "low"

\* placeTowers(group, state, offset, scale, camPos): the four towers, each
\* buildTower(state, detail, beadVisible) at its position and scale
placeTowers(st, offset, scale, camPos) ==
    [n \in 1..4 |->
        LET tPos == towerPositions(offset)[n]
            detail == detailForPos(camPos, tPos, st)
        IN  [kind        |-> "tower",
             pos         |-> tPos,
             scale       |-> scale,
             detail      |-> detail,
             beadVisible |-> /\ Knob(st, "beadEnabled") # 0
                             /\ Nearer(DistSq(camPos, tPos), Knob(st, "beadDistance"))
                             /\ detail # "low"]]

\* placeCentralShrine(group, state)
placeCentralShrine(st) ==
    [kind        |-> "shrine",
     pos         |-> <<0, 0, 0>>,
     scale       |-> 100,
     detail      |-> "medium",
     beadVisible |-> shrineBead(st)]

\* The towers of enclosures e..last, in the order the loop adds them.
RECURSIVE InnerTowers(_, _, _)
InnerTowers(st, camPos, e) ==
    IF (e - 1) \notin RealizedInner(st) THEN <<>>
    ELSE placeTowers(st, EnclosureOffset(st, e), EnclosureScale(e), camPos)
         \o InnerTowers(st, camPos, e + 1)

\* buildTempleComplex(state, camPos): the towers of the group, in the order
\* they are added (outer enclosure, central shrine, inner enclosures)
buildTempleComplex(st, camPos) ==
    placeTowers(st, EnclosureOffset(st, 0), EnclosureScale(0), camPos)
    \o <<placeCentralShrine(st)>>
    \o InnerTowers(st, camPos, 1)

\* detailEntriesForOffset(offset, camPos)
detailEntriesForOffset(st, offset, camPos) ==
    [n \in 1..4 |-> detailForPos(camPos, towerPositions(offset)[n], st)]

RECURSIVE InnerEntries(_, _, _)
InnerEntries(st, camPos, e) ==
    IF (e - 1) \notin RealizedInner(st) THEN <<>>
    ELSE detailEntriesForOffset(st, EnclosureOffset(st, e), camPos)
         \o InnerEntries(st, camPos, e + 1)

\* computeDetailSignature(camPos): the entries that are joined with ","
computeDetailSignature(st, camPos) ==
    detailEntriesForOffset(st, EnclosureOffset(st, 0), camPos)
    \o InnerEntries(st, camPos, 1)
    \o <<detailForPos(camPos, <<0, 0, 0>>, st)>>

\* let temple = null
NoTree == [id |-> 0, towers |-> <<>>]

\* camera.position.set(700, 500, 900)
InitialCamera == <<700, 500, 900>>

\* rebuild(options) without scene.remove(temple) and disposeObject(temple)
rebuild_KeepOld(st, tmpl, scn, disp, fitted, bounds, key, fit, camPos, id, throws) ==
    LET next == clampState(st)
    IN  IF throws
        THEN [state |-> next, temple |-> tmpl, scene |-> scn, disposed |-> disp,
              overlay |-> "Build error", hasFittedView |-> fitted, lastBounds |-> bounds,
              lastDetailKey |-> key, fitView |-> FALSE]
        ELSE [state         |-> next,
              temple        |-> [id |-> id, towers |-> buildTempleComplex(next, camPos)],
              scene         |-> scn \cup {id},
              disposed      |-> disp,
              overlay       |-> IF fit THEN "Scene fitted" ELSE "Scene updated",
              hasFittedView |-> TRUE,
              lastBounds    |-> IF fit \/ bounds = 0 THEN id ELSE bounds,
              lastDetailKey |-> computeDetailSignature(next, camPos),
              fitView       |-> fit \/ ~fitted]

\* rebuild(options), from the values it reads to the values it leaves: `id`
\* names the tree buildTempleComplex returns, `throws` tells whether
\* buildTempleComplex throws, `fitView` whether fitView ran.
rebuild(st, tmpl, scn, disp, fitted, bounds, key, fit, camPos, id, throws) ==
    LET next == clampState(st)
        had == tmpl # NoTree
        \* if (temple) { scene.remove(temple); disposeObject(temple); }
        removed == IF had THEN scn \ {tmpl.id} ELSE scn
        gone == IF had THEN disp \cup {tmpl.id} ELSE disp
    IN  IF throws
        THEN [state |-> next, temple |-> tmpl, scene |-> removed, disposed |-> gone,
              overlay |-> "Build error", hasFittedView |-> fitted, lastBounds |-> bounds,
              lastDetailKey |-> key, fitView |-> FALSE]
        ELSE [state         |-> next,
              temple        |-> [id |-> id, towers |-> buildTempleComplex(next, camPos)],
              scene         |-> removed \cup {id},
              disposed      |-> gone,
              overlay       |-> IF fit THEN "Scene fitted" ELSE "Scene updated",
              hasFittedView |-> TRUE,
              lastBounds    |-> IF fit \/ bounds = 0 THEN id ELSE bounds,
              lastDetailKey |-> computeDetailSignature(next, camPos),
              fitView       |-> fit \/ ~fitted]

-----------------------------------------------------------------------------
(* SpecClamp: clampState as a total function.  The input object is the     *)
(* default state with up to MaxPerturbed knobs replaced by arbitrary       *)
(* values: below, at, inside (on and off the slider step), at and above  *)
(* the range, and the non-finite values.                                   *)

MaxPerturbed == 1

RawCandidates(k) ==
    NonFinite \cup
    {Num(n) : n \in {ranges[k].min - ranges[k].step, ranges[k].min,
                     ranges[k].min + 1, ranges[k].default,
                     ranges[k].max, ranges[k].max + ranges[k].step}}

Perturbed(st) == {k \in Knobs : st[k] # defaultState[k]}

\* The profile editor left out of a specification.
EditorIdle ==
    /\ edPoints = <<>>
    /\ edModelText = <<>>
    /\ edTextarea = <<>>
    /\ edDirty = FALSE

ComplexIdle ==
    /\ cxSt = defaultState
    /\ cxCam = <<0, 0, 0>>
    /\ cxTowers = <<>>
    /\ cxPc = "input"

\* the delay of the debounce timer, ms
DebounceDelay == 120

\* maxInterval of maybeUpdateDetail, ms
CheckInterval == 250

\* The application before line 69 of main.js runs.
AppIdle ==
    /\ state = defaultState
    /\ camera = InitialCamera
    /\ temple = NoTree
    /\ scene = {}
    /\ disposed = {}
    /\ overlay = "Scene initializing..."
    /\ hasFittedView = FALSE
    /\ lastBounds = 0
    /\ lastDetailKey = <<>>
    /\ rebuildTimer = 0
    /\ timers = {}
    /\ lastCamCheck = [pos |-> <<0, 0, 0>>, age |-> 0]
    /\ sinceEdit = DebounceDelay
    /\ rebuildCount = 0
    /\ appPc = "init"

CodecIdle ==
    /\ codecPoints = <<>>
    /\ codecText = <<>>
    /\ codecParsed = <<>>
    /\ codecText2 = <<>>
    /\ codecPc = "input"

ProfIdle ==
    /\ profIn = <<>>
    /\ profTarget = [width |-> 0, depth |-> 0, inset |-> 0]
    /\ profShape = NoShape
    /\ profPc = "input"

ColIdle ==
    /\ colSpan = 0
    /\ colCount = 0
    /\ colPositions = <<>>
    /\ colPc = "input"

TowerIdle ==
    /\ twSt = defaultState
    /\ twDist = 0
    /\ twNoise = <<0>>
    /\ twDetail = "none"
    /\ twTower = [layers |-> <<>>]
    /\ twPc = "input"

LodIdle ==
    /\ lodSt = defaultState
    /\ lodDist = 0
    /\ lodUsed = [near |-> 0, far |-> 0]
    /\ lodDetail = "none"
    /\ lodPc = "input"

ClampIdle ==
    /\ rawState = defaultState
    /\ validState = defaultState
    /\ clampPc = "input"

ClampInit ==
    /\ ComplexIdle
    /\ EditorIdle
    /\ AppIdle
    /\ CodecIdle
    /\ ProfIdle
    /\ ClampIdle
    /\ LodIdle
    /\ TowerIdle
    /\ ColIdle

\* The caller stores an arbitrary value under one knob of the input object.
PerturbKnob(k, r) ==
    /\ clampPc = "input"
    /\ Cardinality(Perturbed(rawState) \cup {k}) <= MaxPerturbed
    /\ rawState' = [rawState EXCEPT ![k] = r]
    /\ UNCHANGED <<validState, clampPc>>
    /\ UNCHANGED <<lodVars, towerVars, colVars, profVars, codecVars, appVars, complexVars, editorVars>>

\* The call clampState(rawState).
ClampCall ==
    /\ clampPc = "input"
    /\ validState' = clampState(rawState)
    /\ clampPc' = "done"
    /\ UNCHANGED rawState
    /\ UNCHANGED <<lodVars, towerVars, colVars, profVars, codecVars, appVars, complexVars, editorVars>>

ClampNext ==
    \/ \E k \in Knobs : \E r \in RawCandidates(k) : PerturbKnob(k, r)
    \/ ClampCall

SpecClamp == ClampInit /\ [][ClampNext]_vars

\* C1: clampState returns, for every input object, a state whose every knob
\* is a finite number inside [min, max]: a finite in-range input is kept, a
\* finite out-of-range input becomes the nearer bound, anything else becomes
\* the knob's default.
C1_ClampTotal ==
    clampPc = "done" =>
        \A k \in Knobs :
            LET in == rawState[k]
                out == validState[k]
                r == ranges[k]
            IN  /\ IsFiniteNumber(out)
                /\ r.min <= out.v /\ out.v <= r.max
                /\ (IsFiniteNumber(in) /\ r.min <= in.v /\ in.v <= r.max) => out.v = in.v
                /\ (IsFiniteNumber(in) /\ in.v < r.min) => out.v = r.min
                /\ (IsFiniteNumber(in) /\ in.v > r.max) => out.v = r.max
                /\ ~IsFiniteNumber(in) => out.v = r.default

\* clampState has been applied to an object holding a knob below its minimum,
\* and has returned the minimum for it.
C1_Witness ==
    /\ clampPc = "done"
    /\ IsFiniteNumber(rawState["striations"])
    /\ rawState["striations"].v < ranges["striations"].min
    /\ validState["striations"].v = ranges["striations"].min

-----------------------------------------------------------------------------
(* SpecLod: detailForPos on every stored pair of bounds.  A stored pair is *)
(* any pair clampState lets through: each bound inside its own range, in   *)
(* either order, on or off the sliders' 50-unit step.                      *)

LodSamples == 2

LodStride == LodGap \div 2

LodNearValues ==
    {ranges["lodNear"].min, ranges["lodNear"].default, ranges["lodNear"].max}
    \cup {ranges["lodFar"].min + i * LodStride : i \in (-LodSamples)..LodSamples}

LodFarValues ==
    {ranges["lodFar"].min, ranges["lodFar"].default, ranges["lodFar"].max}
    \cup {ranges["lodFar"].min + i * LodStride : i \in 0..LodSamples}

LodStates ==
    {[defaultState EXCEPT !["lodNear"] = Num(n), !["lodFar"] = Num(f)] :
        n \in LodNearValues, f \in LodFarValues}

\* Distances at, just below and just above every threshold in play.
LodDistances(st) ==
    {0, ranges["lodFar"].max}
    \cup {x + e : x \in {Knob(st, "lodNear"), Knob(st, "lodFar"),
                         detailThresholds(st).near, detailThresholds(st).far},
                  e \in {-1, 0, 1}}

LodInit ==
    /\ ComplexIdle
    /\ EditorIdle
    /\ AppIdle
    /\ CodecIdle
    /\ ProfIdle
    /\ ClampIdle
    /\ TowerIdle
    /\ ColIdle
    /\ lodSt \in LodStates
    /\ lodSt = clampState(lodSt)
    /\ lodDist \in LodDistances(lodSt)
    /\ lodUsed = [near |-> 0, far |-> 0]
    /\ lodDetail = "none"
    /\ lodPc = "input"

\* The call detailForPos(camPos, towerPos, lodSt) with the two positions
\* lodDist apart.
DetailCall ==
    /\ lodPc = "input"
    /\ lodUsed' = detailThresholds(lodSt)
    /\ lodDetail' = detailForDist(lodDist, lodSt)
    /\ lodPc' = "done"
    /\ UNCHANGED <<lodSt, lodDist>>
    /\ UNCHANGED <<clampVars, towerVars, colVars, profVars, codecVars, appVars, complexVars, editorVars>>

LodNext == DetailCall

SpecLod == LodInit /\ [][LodNext]_vars

\* The classification the sentence describes: High below near, Medium from
\* near up to far, Low from far on, with near and far the stored bounds.
ClassifiedByStoredBounds ==
    LET n == Knob(lodSt, "lodNear")
        f == Knob(lodSt, "lodFar")
    IN  /\ lodDetail = "high" <=> lodDist < n
        /\ lodDetail = "medium" <=> (n <= lodDist /\ lodDist < f)
        /\ lodDetail = "low" <=> lodDist >= f

\* C3 as stated: for every stored pair with lodNear < lodFar and every
\* distance, detailForPos classifies by the stored bounds.
C3_Original ==
    (lodPc = "done" /\ Knob(lodSt, "lodNear") < Knob(lodSt, "lodFar"))
        => ClassifiedByStoredBounds

\* C3 as amended: for every stored pair with lodFar - lodNear >= 50 (every
\* pair of the sliders' 50-unit grid with lodNear < lodFar is one) and every
\* distance, detailForPos classifies by the stored bounds.
C3_ClassifyWithGap ==
    (lodPc = "done" /\ Knob(lodSt, "lodFar") - Knob(lodSt, "lodNear") >= LodGap)
        => ClassifiedByStoredBounds

\* The default bounds 1250 / 2500 have classified a distance equal to
\* lodNear as Medium.
C3_Witness ==
    /\ lodPc = "done"
    /\ Knob(lodSt, "lodNear") = ranges["lodNear"].default
    /\ Knob(lodSt, "lodFar") = ranges["lodFar"].default
    /\ lodDist = Knob(lodSt, "lodNear")
    /\ lodDetail = "medium"

\* C4: whatever the stored pair, also with lodNear >= lodFar, the thresholds
\* the distance is compared against satisfy near < far.
C4_ThresholdsOrdered ==
    lodPc = "done" => lodUsed.near < lodUsed.far

\* A classification has been made from a stored pair with lodNear > lodFar.
C4_Witness ==
    /\ lodPc = "done"
    /\ Knob(lodSt, "lodNear") > Knob(lodSt, "lodFar")
    /\ lodUsed.near = Knob(lodSt, "lodFar") - LodGap
    /\ lodUsed.far = Knob(lodSt, "lodFar")

-----------------------------------------------------------------------------
(* SpecTower: one perimeter tower, placed as placeTowers places it, for    *)
(* clamped states with whole and fractional tier knobs, viewer distances   *)
(* on both sides of each threshold and every noise field of NoisePeriod    *)
(* samples.                                                                *)

NoisePeriod == 2

NoiseFields == [1..NoisePeriod -> 0..NoiseDen]

TowerStates ==
    {[defaultState EXCEPT !["striations"] = Num(s), !["visibleTiers"] = Num(v),
                          !["beadEnabled"] = Num(b)] :
        s \in {3000, 3500, 7000, 12000, 15000},
        v \in {1000, 2500, 6000, 7000, 15000},
        b \in {0, 1000}}

TowerDistances == {500000, 1000000, 1250000, 2500000, 3000000}

TowerInit ==
    /\ ComplexIdle
    /\ EditorIdle
    /\ AppIdle
    /\ CodecIdle
    /\ ProfIdle
    /\ ClampIdle
    /\ LodIdle
    /\ ColIdle
    /\ twSt \in TowerStates
    /\ twSt = clampState(twSt)
    /\ twDist \in TowerDistances
    /\ twNoise \in NoiseFields
    /\ twDetail = "none"
    /\ twTower = [layers |-> <<>>]
    /\ twPc = "input"

\* One iteration of towerPositions.forEach in placeTowers.
PlaceTower ==
    /\ twPc = "input"
    /\ LET detail == detailForDist(twDist, twSt)
       IN  /\ twDetail' = detail
           /\ twTower' = buildTower(twSt, detail, beadVisibleFor(twSt, twDist, detail), twNoise)
    /\ twPc' = "done"
    /\ UNCHANGED <<twSt, twDist, twNoise>>
    /\ UNCHANGED <<clampVars, lodVars, colVars, profVars, codecVars, appVars, complexVars, editorVars>>

TowerNext == PlaceTower

SpecTower == TowerInit /\ [][TowerNext]_vars

\* What the built group shows.
LayerIndexes == 1..Len(twTower.layers)

RealizedTierSet == {twTower.layers[n].tier : n \in LayerIndexes}

LayersOfTier(i) == {n \in LayerIndexes : twTower.layers[n].tier = i}

\* ceil(m / Q) for m >= 0
CeilUnits(m) == (m + Q - 1) \div Q

CappedTiers == Min(tierCount(twSt), Knob(twSt, "visibleTiers"))

\* C5 as stated: exactly min(tierCount, visibleTiers) tiers are realized, the
\* lowest-indexed ones.
C5_Original ==
    twPc = "done" =>
        /\ Cardinality(RealizedTierSet) * Q = CappedTiers
        /\ RealizedTierSet = {i \in 0..15 : i * Q < CappedTiers}

\* C5 as amended: exactly ceil(min(tierCount, visibleTiers)) tiers are
\* realized (min itself when both knobs are whole numbers), and they are the
\* tiers 0 .. n-1.
C5_RealizedTiers ==
    twPc = "done" =>
        /\ Cardinality(RealizedTierSet) = CeilUnits(CappedTiers)
        /\ RealizedTierSet = 0..(CeilUnits(CappedTiers) - 1)
        /\ (CappedTiers % Q = 0 => Cardinality(RealizedTierSet) * Q = CappedTiers)

\* A tower with 12 striations capped at 6 visible tiers has been built and
\* shows the tiers 0..5.
C5_Witness ==
    /\ twPc = "done"
    /\ Knob(twSt, "striations") = 12000
    /\ Knob(twSt, "visibleTiers") = 6000
    /\ RealizedTierSet = 0..5

\* 2 + floor(2 * sample) for the sample of tier i, from the sentence.
ExpectedSubSteps(i) == 2 + ((2 * noise2d(twNoise, i)) \div NoiseDen)

\* The sum of ExpectedSubSteps over the tiers of S.
RECURSIVE ExpectedLayers(_)
ExpectedLayers(S) ==
    IF S = {} THEN 0
    ELSE LET x == CHOOSE y \in S : TRUE
         IN  ExpectedSubSteps(x) + ExpectedLayers(S \ {x})

SevenOfFifteen ==
    (Knob(twSt, "striations") = 7000 /\ Knob(twSt, "visibleTiers") = 15000)
        => Cardinality(RealizedTierSet) = 7

\* C6 as stated: at High detail every realized tier has 2 or 3 sub-steps,
\* for every sample in [0, 1], and the layers number the sum of the
\* sub-steps.
C6_Original ==
    (twPc = "done" /\ twDetail = "high") =>
        /\ \A i \in RealizedTierSet :
              /\ Cardinality(LayersOfTier(i)) = ExpectedSubSteps(i)
              /\ Cardinality(LayersOfTier(i)) \in {2, 3}
        /\ Len(twTower.layers) = ExpectedLayers(RealizedTierSet)
        /\ SevenOfFifteen

\* C6 as amended: at High detail every realized tier has 2 + floor(2*sample)
\* sub-steps, which is 2 or 3 for every sample in [0, 1) and 4 for the
\* sample 1, and the layers number the sum of the sub-steps.
C6_SubSteps ==
    (twPc = "done" /\ twDetail = "high") =>
        /\ \A i \in RealizedTierSet :
              /\ Cardinality(LayersOfTier(i)) = ExpectedSubSteps(i)
              /\ noise2d(twNoise, i) < NoiseDen => Cardinality(LayersOfTier(i)) \in {2, 3}
              /\ noise2d(twNoise, i) = NoiseDen => Cardinality(LayersOfTier(i)) = 4
        /\ Len(twTower.layers) = ExpectedLayers(RealizedTierSet)
        /\ SevenOfFifteen

\* A High tower of 7 striations and 15 visible tiers has been built whose
\* tiers alternate between 2 and 3 sub-steps.
C6_Witness ==
    /\ twPc = "done"
    /\ twDetail = "high"
    /\ Knob(twSt, "striations") = 7000
    /\ Knob(twSt, "visibleTiers") = 15000
    /\ Cardinality(RealizedTierSet) = 7
    /\ Cardinality(LayersOfTier(0)) = 2
    /\ Cardinality(LayersOfTier(1)) = 3

\* C7: a tower built at Low detail has one sub-step per realized tier and no
\* pilasters, niches, stripes, mini-shrines, statue rows or bead rails; with
\* lodNear = 1250 and lodFar = 2500 a tower 3000 away is built at Low.
C7_LowDetail ==
    twPc = "done" =>
        /\ twDetail = "low" =>
              /\ \A i \in RealizedTierSet : Cardinality(LayersOfTier(i)) = 1
              /\ \A n \in LayerIndexes :
                    LET o == twTower.layers[n].ornaments
                    IN  /\ ~o.pilasters /\ ~o.niches /\ ~o.stripes
                        /\ ~o.miniShrines /\ ~o.statueRow /\ ~o.beadRow
        /\ (/\ Knob(twSt, "lodNear") = 1250000
            /\ Knob(twSt, "lodFar") = 2500000
            /\ twDist = 3000000) => twDetail = "low"

\* A tower 3000 away has been built at Low, with beads enabled, and has
\* several tiers of which one is not the top one.
C7_Witness ==
    /\ twPc = "done"
    /\ twDist = 3000000
    /\ twDetail = "low"
    /\ Knob(twSt, "beadEnabled") # 0
    /\ Cardinality(RealizedTierSet) = 7
    /\ Len(twTower.layers) = 7

-----------------------------------------------------------------------------
(* SpecCols: columnPositions on every span 0..MaxSpan and the two tower    *)
(* widths 250 and 500, and every count 0, 0.5, 1, ... MaxCount.            *)

MaxSpan == 60

MaxCount == 10

ColSpans == 0..MaxSpan \cup {250, 500}

ColCounts == {h * (Q \div 2) : h \in 0..(2 * MaxCount)}

ColInit ==
    /\ ComplexIdle
    /\ EditorIdle
    /\ AppIdle
    /\ CodecIdle
    /\ ProfIdle
    /\ ClampIdle
    /\ LodIdle
    /\ TowerIdle
    /\ colSpan \in ColSpans
    /\ colCount \in ColCounts
    /\ colPositions = <<>>
    /\ colPc = "input"

\* The call columnPositions(colSpan, colCount).
ColumnCall ==
    /\ colPc = "input"
    /\ colPositions' = columnPositions(colSpan, colCount)
    /\ colPc' = "done"
    /\ UNCHANGED <<colSpan, colCount>>
    /\ UNCHANGED <<clampVars, lodVars, towerVars, profVars, codecVars, appVars, complexVars, editorVars>>

ColNext == ColumnCall

SpecCols == ColInit /\ [][ColNext]_vars

\* |p| >= 0.18 * span, from the sentence: |num| / den >= 18 span / 100
AtLeastClearance(p) == Abs(p.num) * 100 >= 18 * colSpan * p.den

\* C8: columnPositions returns at least 2 positions, and every position not
\* pushed by a fallback branch has |p| >= 0.18 * span.
C8_ColumnPositions ==
    colPc = "done" =>
        /\ Len(colPositions) >= 2
        /\ \A n \in 1..Len(colPositions) :
              colPositions[n].from = "loop" => AtLeastClearance(colPositions[n])

\* A face of span 22 with 2.5 columns: the loop kept one position and the
\* single-survivor branch mirrored it.
C8_Witness ==
    /\ colPc = "done"
    /\ colSpan = 22
    /\ Len(colPositions) = 2
    /\ colPositions[1].from = "loop"
    /\ colPositions[2].from = "mirror"

-----------------------------------------------------------------------------
(* SpecProfile: profileToShape on every profile of up to MaxProfileLen     *)
(* points drawn from a 3 x 2 grid, and on two profiles of five points on   *)
(* one line, fitted into the base footprint with and without the 2 %       *)
(* inset.                                                                  *)

MaxProfileLen == 4

ProfilePool == {<<x * PQ, y * PQ>> : x \in 0..2, y \in 0..1}

RECURSIVE SeqsUpTo(_, _)
SeqsUpTo(S, n) ==
    IF n = 0 THEN {<<>>}
    ELSE LET shorter == SeqsUpTo(S, n - 1)
         IN  shorter \cup {Append(q, x) : q \in {r \in shorter : Len(r) = n - 1}, x \in S}

\* five different points that share one coordinate
FlatProfiles ==
    {[n \in 1..5 |-> <<n * PQ, 0>>], [n \in 1..5 |-> <<0, n * PQ>>]}

ProfInit ==
    /\ ComplexIdle
    /\ EditorIdle
    /\ AppIdle
    /\ CodecIdle
    /\ ClampIdle
    /\ LodIdle
    /\ TowerIdle
    /\ ColIdle
    /\ profIn \in SeqsUpTo(ProfilePool, MaxProfileLen) \cup FlatProfiles
    /\ profTarget \in {[width |-> 250, depth |-> 180, inset |-> i] : i \in {0, 2}}
    /\ profShape = NoShape
    /\ profPc = "input"

\* The call profileToShape(profIn, width, depth, tierSteps(state), inset).
ShapeCall ==
    /\ profPc = "input"
    /\ profShape' = profileToShape(profIn, profTarget.width, profTarget.depth,
                                   tierSteps, profTarget.inset)
    /\ profPc' = "done"
    /\ UNCHANGED <<profIn, profTarget>>
    /\ UNCHANGED <<clampVars, lodVars, towerVars, colVars, codecVars, appVars, complexVars, editorVars>>

ProfNext == ShapeCall

SpecProfile == ProfInit /\ [][ProfNext]_vars

\* The number of different points of the profile.
UniquePoints == Cardinality({profIn[n] : n \in 1..Len(profIn)})

\* The vertices left of a non-empty profile once consecutive repeats are
\* dropped and the loop is closed: one per change of point, one for the
\* start, one more when the last point is not the first.
ClosedLength ==
    Cardinality({n \in 1..(Len(profIn) - 1) : profIn[n] # profIn[n + 1]}) + 1
    + (IF profIn[1] # profIn[Len(profIn)] THEN 1 ELSE 0)

ReturnsClosedOutline ==
    /\ Len(profShape.vertices) >= 4
    /\ profShape.vertices[1] = profShape.vertices[Len(profShape.vertices)]

\* C9 as stated: a profile with fewer than 4 unique points takes the
\* fallback branch and a closed outline of at least 4 vertices is returned.
C9_Original ==
    (profPc = "done" /\ UniquePoints < 4) =>
        /\ profShape.fallback
        /\ ReturnsClosedOutline

\* C9 as amended: a profile with fewer than 4 unique points yields a closed
\* outline of at least 4 vertices; the fallback branch is taken exactly when
\* the profile is not empty and fewer than 4 vertices are left after
\* dropping consecutive repeats and closing the loop.
C9_FallbackWhenShort ==
    (profPc = "done" /\ UniquePoints < 4) =>
        /\ ReturnsClosedOutline
        /\ profShape.fallback <=> (Len(profIn) > 0 /\ ClosedLength < 4)

\* A two-point profile has been replaced by the fallback outline.
C9_Witness ==
    /\ profPc = "done"
    /\ Len(profIn) = 2
    /\ UniquePoints = 2
    /\ profShape.fallback
    /\ Len(profShape.vertices) > 4

\* maxX - minX and maxY - minY of the profile passed in, in millionths
RawSpan(axis) == SetMax(Coordinates(profIn, axis)) - SetMin(Coordinates(profIn, axis))

\* C23 as stated: profileToShape returns the fallback outline whenever the
\* bounding box of the profile has a span below epsilon on either axis.
C23_FallbackOnFlatBox ==
    (/\ profPc = "done"
     /\ Len(profIn) > 0
     /\ (RawSpan(1) < ProfileEps \/ RawSpan(2) < ProfileEps))
    => profShape.fallback

\* the span profileToShape divides by
FitSpan(axis) == Max(ProfileEps, RawSpan(axis))

\* the limiting factor of the direct orientation: the smaller of
\* effectiveW / spanX and effectiveD / spanY
DirectFactor ==
    FracMin(ScaleRatio(EffectiveSize(profTarget.width, profTarget.inset), FitSpan(1)),
            ScaleRatio(EffectiveSize(profTarget.depth, profTarget.inset), FitSpan(2)))

\* the limiting factor of the swapped orientation
SwappedFactor ==
    FracMin(ScaleRatio(EffectiveSize(profTarget.width, profTarget.inset), FitSpan(2)),
            ScaleRatio(EffectiveSize(profTarget.depth, profTarget.inset), FitSpan(1)))

SameFraction(a, b) == ~FracLess(a, b) /\ ~FracLess(b, a)

\* C24 as stated: for a non-degenerate profile, profileToShape multiplies
\* both coordinates by one and the same factor, the limiting factor of the
\* orientation chosen, and chooses the swapped orientation exactly when its
\* limiting factor is strictly the larger one.
C24_UniformFit ==
    (/\ profPc = "done"
     /\ Len(profIn) > 0
     /\ ~profShape.fallback
     /\ RawSpan(1) >= ProfileEps /\ RawSpan(2) >= ProfileEps)
    => /\ SameFraction(profShape.sx, profShape.sy)
       /\ SameFraction(profShape.sx,
                       IF profShape.rotated THEN SwappedFactor ELSE DirectFactor)
       /\ profShape.rotated <=> FracLess(DirectFactor, SwappedFactor)

\* the vertices of the shape returned, as a set
VertexSet == {profShape.vertices[n] : n \in 1..Len(profShape.vertices)}

\* the half-extents |x| and |z| the vertices use, in units of profShape.unit
HalfExtents(axis) == {Abs(v[axis]) : v \in VertexSet}

\* every half-extent but the greatest is 0.82 times another one
ShrunkByOneRatio(S) ==
    \A a \in S : a = SetMax(S) \/ \E b \in S : b % 100 = 0 /\ (b \div 100) * 82 = a

\* the fallback outline has n half-extents on each axis, each the previous
\* one shrunk by one ratio; it is a closed loop without consecutive
\* duplicates, inside the target rectangle, and the same for every profile
FallbackStepped ==
    /\ Cardinality(HalfExtents(1)) = tierSteps
    /\ Cardinality(HalfExtents(2)) = tierSteps
    /\ ShrunkByOneRatio(HalfExtents(1))
    /\ ShrunkByOneRatio(HalfExtents(2))
    /\ profShape.vertices[1] = profShape.vertices[Len(profShape.vertices)]
    /\ \A n \in 1..(Len(profShape.vertices) - 1) :
          profShape.vertices[n] # profShape.vertices[n + 1]
    /\ \A v \in VertexSet :
          /\ 2 * Abs(v[1]) <= profTarget.width * profShape.unit
          /\ 2 * Abs(v[2]) <= profTarget.depth * profShape.unit
    /\ profShape.vertices = fractalOutline(profTarget.width, profTarget.depth, tierSteps, 82)

\* the outline is its own mirror image in both axes
FallbackSymmetric ==
    \A v \in VertexSet : <<-v[1], v[2]>> \in VertexSet /\ <<v[1], -v[2]>> \in VertexSet

\* C25 as stated: the fallback outline for n step levels uses n concentric
\* half-extents, each the previous one shrunk by one fixed ratio, is
\* symmetric under reflection in both axes, is a closed loop without
\* consecutive duplicate vertices inside the target rectangle, and depends
\* only on the target width, depth and n.
C25_FallbackOutline ==
    (profPc = "done" /\ profShape.fallback) => (FallbackStepped /\ FallbackSymmetric)

-----------------------------------------------------------------------------
(* SpecCodec: a valid profile is written by pointsToString, read back by   *)
(* parseProfileText and written again, as the text-area handler does with  *)
(* what it reads.                                                          *)

MaxCodecLen == 3

\* a profile of fewer points is not accepted (parsed.length < 3)
MinProfilePoints == 3

\* -0.0000001, 0.0000004, -0.0000005, -12.3456785, 1.5, 100, 0 and -0
CodecPool ==
    { <<Coord(TRUE, 1), Coord(FALSE, 15000000)>>,
      <<Coord(FALSE, 0), Coord(TRUE, 0)>>,
      <<Coord(FALSE, 4), Coord(TRUE, 5)>>,
      <<Coord(TRUE, 123456785), Coord(FALSE, 1000000000)>>,
      <<Coord(FALSE, 15000000), Coord(TRUE, 15000000)>> }

CodecInit ==
    /\ ComplexIdle
    /\ EditorIdle
    /\ AppIdle
    /\ ClampIdle
    /\ LodIdle
    /\ TowerIdle
    /\ ColIdle
    /\ ProfIdle
    /\ codecPoints \in {q \in SeqsUpTo(CodecPool, MaxCodecLen) : Len(q) >= MinProfilePoints}
    /\ codecText = <<>>
    /\ codecParsed = <<>>
    /\ codecText2 = <<>>
    /\ codecPc = "input"

Serialize ==
    /\ codecPc = "input"
    /\ codecText' = pointsToString(codecPoints)
    /\ codecPc' = "serialized"
    /\ UNCHANGED <<codecPoints, codecParsed, codecText2>>
    /\ UNCHANGED <<clampVars, lodVars, towerVars, colVars, profVars, appVars, complexVars, editorVars>>

Parse ==
    /\ codecPc = "serialized"
    /\ codecParsed' = parseProfileText(codecText)
    /\ codecPc' = "parsed"
    /\ UNCHANGED <<codecPoints, codecText, codecText2>>
    /\ UNCHANGED <<clampVars, lodVars, towerVars, colVars, profVars, appVars, complexVars, editorVars>>

Reserialize ==
    /\ codecPc = "parsed"
    /\ codecText2' = pointsToString(codecParsed)
    /\ codecPc' = "reserialized"
    /\ UNCHANGED <<codecPoints, codecText, codecParsed>>
    /\ UNCHANGED <<clampVars, lodVars, towerVars, colVars, profVars, appVars, complexVars, editorVars>>

CodecNext == Serialize \/ Parse \/ Reserialize

SpecCodec == CodecInit /\ [][CodecNext]_vars

\* one millionth, in the units of a coordinate
Tolerance == Pow(10, CoordDigits - FixedDigits)

\* The part of C10 about parse(serialize(P)): as many points as P, each
\* coordinate within 1e-6 of the original.
C10_ParseWithinTolerance ==
    codecPc \in {"parsed", "reserialized"} =>
        /\ Len(codecParsed) = Len(codecPoints)
        /\ \A n \in 1..Len(codecPoints) : \A a \in 1..2 :
               Abs(Value(codecParsed[n][a]) - Value(codecPoints[n][a])) <= Tolerance

\* C10 as stated: parse(serialize(P)) has as many points as P, each
\* coordinate within 1e-6 of the original, and serialize(parse(serialize(P)))
\* is the same text as serialize(P).
C10_RoundTrip ==
    codecPc = "reserialized" =>
        /\ Len(codecParsed) = Len(codecPoints)
        /\ \A n \in 1..Len(codecPoints) : \A a \in 1..2 :
               Abs(Value(codecParsed[n][a]) - Value(codecPoints[n][a])) <= Tolerance
        /\ codecText2 = codecText

\* What C20 says of the layers of a Medium tower: columns for the full
\* columnCount, pilasters and a cornice, no statue row and no bead rail, and
\* max(1, floor(0.8 s)) sub-steps in a tier that has s of them at High.
MediumLayers ==
    twDetail = "medium" =>
        \A n \in LayerIndexes :
            LET layer == twTower.layers[n]
                o == layer.ornaments
                s == subStepsFor("high", noise2d(twNoise, layer.tier))
            IN  /\ o.columns /\ o.columnCount = Knob(twSt, "columnCount")
                /\ o.pilasters /\ o.cornice
                /\ ~o.statueRow /\ ~o.beadRow
                /\ layer.subSteps = Max(1, (8 * s) \div 10)
                /\ Cardinality(LayersOfTier(layer.tier)) = layer.subSteps

\* What holds of every layer of a High tower: every ornament class but the
\* mini-shrines and the bead rail, and the bead rail iff beadEnabled is set
\* and the tower is nearer than beadDistance.
HighLayers ==
    twDetail = "high" =>
        \A n \in LayerIndexes :
            LET o == twTower.layers[n].ornaments
            IN  /\ o.pilasters /\ o.niches /\ o.stripes /\ o.statueRow
                /\ o.columns /\ o.columnCount = Knob(twSt, "columnCount")
                /\ o.cornice
                /\ o.beadRow <=> (/\ Knob(twSt, "beadEnabled") # 0
                                  /\ twDist < Knob(twSt, "beadDistance"))

\* C20 as stated: the Medium layers are as described, and at High every
\* layer has all ornament classes, the mini-shrines among them.
C20_Original ==
    twPc = "done" =>
        /\ MediumLayers
        /\ HighLayers
        /\ twDetail = "high" =>
              \A n \in LayerIndexes : twTower.layers[n].ornaments.miniShrines

\* C20 as amended: the Medium layers are as described; at High every layer
\* has pilasters, niches, stripes, a statue row, columns and a cornice, and
\* the bead rail iff beadEnabled is set and the tower is nearer than
\* beadDistance; at Medium and at High a layer has mini-shrines unless its
\* tier index is min(tierCount, visibleTiers) - 1.
C20_OrnamentsByDetail ==
    twPc = "done" =>
        /\ MediumLayers
        /\ HighLayers
        /\ twDetail \in {"medium", "high"} =>
              \A n \in LayerIndexes :
                  twTower.layers[n].ornaments.miniShrines
                      <=> twTower.layers[n].tier * Q # CappedTiers - Q

\* a High tower nearer than beadDistance with the beads enabled has been
\* built: its layers carry statue rows and bead rails, and the layers of
\* its top tier carry no mini-shrines
C20_Witness ==
    /\ twPc = "done"
    /\ twDetail = "high"
    /\ Knob(twSt, "beadEnabled") # 0
    /\ twDist < Knob(twSt, "beadDistance")
    /\ \E n \in LayerIndexes : ~twTower.layers[n].ornaments.miniShrines
    /\ \E n \in LayerIndexes : /\ twTower.layers[n].ornaments.beadRow
                                /\ twTower.layers[n].ornaments.miniShrines

\* the last tier the loop realized
LastRealizedTier == SetMax(RealizedTierSet)

\* four boxes, one on each face, each centred on its face: the boxes of the
\* X faces at z = 0 and beyond the middle of the layer along x, those of the
\* Z faces at x = 0
OnePerFace(shrines) ==
    /\ Len(shrines) = 4
    /\ \A f \in {"-X", "+X", "-Z", "+Z"} :
          Cardinality({k \in 1..4 : shrines[k].face = f}) = 1
    /\ \A k \in 1..4 :
          /\ shrines[k].face = "-X" => (shrines[k].z = 0 /\ shrines[k].x < 0)
          /\ shrines[k].face = "+X" => (shrines[k].z = 0 /\ shrines[k].x > 0)
          /\ shrines[k].face = "-Z" => (shrines[k].x = 0 /\ shrines[k].z < 0)
          /\ shrines[k].face = "+Z" => (shrines[k].x = 0 /\ shrines[k].z > 0)

\* C21 as stated: at Medium or High detail every layer of a realized tier
\* other than the last realized one holds exactly 4 mini-shrines, one
\* centred on each of the four faces, and every layer of the last realized
\* tier holds none, whatever tierCount and visibleTiers are.
C21_MiniShrines ==
    (twPc = "done" /\ twDetail \in {"medium", "high"}) =>
        \A n \in LayerIndexes :
            IF twTower.layers[n].tier = LastRealizedTier
            THEN twTower.layers[n].shrines = <<>>
            ELSE OnePerFace(twTower.layers[n].shrines)

\* the protrusion factors compared: the ends of the range and the default
ProtrudeValues ==
    {ranges.shrineProtrude.min, ranges.shrineProtrude.default, ranges.shrineProtrude.max}

\* the tower built as twTower was, from a state that differs in
\* shrineProtrude alone
TowerWithProtrude(p) ==
    buildTower([twSt EXCEPT !["shrineProtrude"] = Num(p)], twDetail,
               beadVisibleFor(twSt, twDist, twDetail), twNoise)

\* the length, in eightieths, by which a mini-shrine reaches beyond the face
\* it stands on, along the normal of that face
BeyondFace(shrine) ==
    IF shrine.face \in {"-X", "+X"}
    THEN Abs(shrine.x) + shrine.sizeX \div 2 - MiniDen \div 2
    ELSE Abs(shrine.z) + shrine.sizeZ \div 2 - MiniDen \div 2

\* C22 as stated: two builds that differ only in shrineProtrude place the
\* mini-shrines at different offsets from the tier face, and at the default
\* factor about 7/8 (here: at least 3/4) of each shrine's extent along the
\* face normal lies beyond the tier volume.
C22_ProtrudeOffsets ==
    (twPc = "done" /\ twDetail \in {"medium", "high"}) =>
        \A n \in LayerIndexes :
            twTower.layers[n].shrines # <<>> =>
                /\ \A p \in ProtrudeValues \ {Knob(twSt, "shrineProtrude")} :
                      TowerWithProtrude(p).layers[n].shrines # twTower.layers[n].shrines
                /\ Knob(twSt, "shrineProtrude") = ranges.shrineProtrude.default =>
                      \A k \in DOMAIN twTower.layers[n].shrines :
                          4 * BeyondFace(twTower.layers[n].shrines[k])
                              >= 3 * twTower.layers[n].shrines[k].sizeX

-----------------------------------------------------------------------------
(* Spec: the application.  The module runs rebuild once while it loads;    *)
(* afterwards knob edits schedule the debounced rebuild, the timer runs    *)
(* it, "Refit view" rebuilds at once, the orbit controls move the camera   *)
(* and each frame of the animation loop runs maybeUpdateDetail.  Time is   *)
(* kept as the delay left to each pending timer and as the age of the last *)
(* detail check.  buildTempleComplex may throw in any rebuild.             *)

MaxRebuilds == 2

\* where the orbit controls or fitView may leave the camera
CameraPositions == {InitialCamera, <<1900, 800, 1400>>}

\* the knobs the generic sliders edit here, each to its least or greatest value
EditedKnobs == {"innerWalls"}

EditValues(k) == {ranges[k].min, ranges[k].max}

\* the time that passes between two events, ms
TimeSteps == {DebounceDelay \div 2, CheckInterval}

Init ==
    /\ ClampIdle
    /\ LodIdle
    /\ TowerIdle
    /\ ColIdle
    /\ ProfIdle
    /\ CodecIdle
    /\ ComplexIdle
    /\ EditorIdle
    /\ AppIdle

\* One call rebuild({ fit, camPos }) on the application's variables.
RebuildCall(fit, camPos) ==
    /\ rebuildCount < MaxRebuilds
    /\ \E throws \in BOOLEAN : \E fitCamera \in CameraPositions :
          LET r == rebuild(state, temple, scene, disposed, hasFittedView, lastBounds,
                           lastDetailKey, fit, camPos, rebuildCount + 1, throws)
          IN  /\ state' = r.state
              /\ temple' = r.temple
              /\ scene' = r.scene
              /\ disposed' = r.disposed
              /\ overlay' = r.overlay
              /\ hasFittedView' = r.hasFittedView
              /\ lastBounds' = r.lastBounds
              /\ lastDetailKey' = r.lastDetailKey
              /\ camera' = IF r.fitView THEN fitCamera ELSE camera
    /\ rebuildCount' = rebuildCount + 1

\* rebuild({ fit: true, camPos: camera.position }) while the module loads
InitialRebuild ==
    /\ appPc = "init"
    /\ RebuildCall(TRUE, camera)
    /\ appPc' = "gui"
    /\ UNCHANGED <<rebuildTimer, timers, lastCamCheck, sinceEdit>>
    /\ UNCHANGED <<clampVars, lodVars, towerVars, colVars, profVars, codecVars, complexVars, editorVars>>

\* the rest of the module: the GUI is made, the loop is started and the
\* overlay is set to "Scene loaded"
FinishLoad ==
    /\ appPc = "gui"
    /\ appPc' = "running"
    /\ overlay' = "Scene loaded"
    /\ UNCHANGED <<state, camera, temple, scene, disposed, hasFittedView, lastBounds,
                   lastDetailKey, rebuildTimer, timers, lastCamCheck, sinceEdit,
                   rebuildCount>>
    /\ UNCHANGED <<clampVars, lodVars, towerVars, colVars, profVars, codecVars, complexVars, editorVars>>

\* the 100 the LOD sliders keep between the two bounds, in thousandths
LodCorrection == 100000

\* the id setTimeout returns: one that differs from the handle held
NewTimerId == IF rebuildTimer = 1 THEN 2 ELSE 1

\* scheduleRebuild() without its clearTimeout
scheduleRebuild_NoClear ==
    /\ timers' = timers \cup {[id |-> NewTimerId, left |-> DebounceDelay]}
    /\ rebuildTimer' = NewTimerId

\* scheduleRebuild(): clearTimeout of the timer held, then a new one
scheduleRebuild ==
    /\ timers' = (IF rebuildTimer # 0
                  THEN {t \in timers : t.id # rebuildTimer}
                  ELSE timers) \cup {[id |-> NewTimerId, left |-> DebounceDelay]}
    /\ rebuildTimer' = NewTimerId

\* a slider writes its value to state[k]; onChange(() => scheduleRebuild())
EditKnob(k, v) ==
    /\ appPc = "running"
    /\ state' = [state EXCEPT ![k] = Num(v)]
    /\ scheduleRebuild
    /\ sinceEdit' = 0
    /\ UNCHANGED <<camera, temple, scene, disposed, overlay, hasFittedView, lastBounds,
                   lastDetailKey, lastCamCheck, rebuildCount, appPc>>
    /\ UNCHANGED <<clampVars, lodVars, towerVars, colVars, profVars, codecVars, complexVars, editorVars>>

\* the "LOD near" slider with an onChange that leaves lodFar alone
EditLodNear_NoNudge(v) ==
    /\ appPc = "running"
    /\ state' = [state EXCEPT !["lodNear"] = Num(v)]
    /\ scheduleRebuild
    /\ sinceEdit' = 0
    /\ UNCHANGED <<camera, temple, scene, disposed, overlay, hasFittedView, lastBounds,
                   lastDetailKey, lastCamCheck, rebuildCount, appPc>>
    /\ UNCHANGED <<clampVars, lodVars, towerVars, colVars, profVars, codecVars, complexVars, editorVars>>

\* the "LOD near" slider and its onChange
EditLodNear(v) ==
    /\ appPc = "running"
    /\ state' = IF v >= Knob(state, "lodFar")
                THEN [state EXCEPT !["lodNear"] = Num(v),
                                   !["lodFar"] = Num(Min(ranges.lodFar.max, v + LodCorrection))]
                ELSE [state EXCEPT !["lodNear"] = Num(v)]
    /\ scheduleRebuild
    /\ sinceEdit' = 0
    /\ UNCHANGED <<camera, temple, scene, disposed, overlay, hasFittedView, lastBounds,
                   lastDetailKey, lastCamCheck, rebuildCount, appPc>>
    /\ UNCHANGED <<clampVars, lodVars, towerVars, colVars, profVars, codecVars, complexVars, editorVars>>

\* the "LOD far" slider and its onChange
EditLodFar(v) ==
    /\ appPc = "running"
    /\ state' = IF v <= Knob(state, "lodNear")
                THEN [state EXCEPT !["lodFar"] = Num(v),
                                   !["lodNear"] = Num(Max(ranges.lodNear.min, v - LodCorrection))]
                ELSE [state EXCEPT !["lodFar"] = Num(v)]
    /\ scheduleRebuild
    /\ sinceEdit' = 0
    /\ UNCHANGED <<camera, temple, scene, disposed, overlay, hasFittedView, lastBounds,
                   lastDetailKey, lastCamCheck, rebuildCount, appPc>>
    /\ UNCHANGED <<clampVars, lodVars, towerVars, colVars, profVars, codecVars, complexVars, editorVars>>

\* a timer set by scheduleRebuild runs once its delay has passed:
\* rebuild({ fit: false, camPos: camera.position })
TimerFires ==
    /\ appPc = "running"
    /\ \E t \in timers :
          /\ t.left = 0
          /\ timers' = timers \ {t}
    /\ RebuildCall(FALSE, camera)
    /\ UNCHANGED <<rebuildTimer, lastCamCheck, sinceEdit, appPc>>
    /\ UNCHANGED <<clampVars, lodVars, towerVars, colVars, profVars, codecVars, complexVars, editorVars>>

\* "Refit view": rebuild({ fit: true })
Refit ==
    /\ appPc = "running"
    /\ RebuildCall(TRUE, camera)
    /\ UNCHANGED <<rebuildTimer, timers, lastCamCheck, sinceEdit, appPc>>
    /\ UNCHANGED <<clampVars, lodVars, towerVars, colVars, profVars, codecVars, complexVars, editorVars>>

\* the orbit controls move the camera
CameraMove(pos) ==
    /\ appPc = "running"
    /\ pos # camera
    /\ camera' = pos
    /\ UNCHANGED <<state, temple, scene, disposed, overlay, hasFittedView, lastBounds,
                   lastDetailKey, rebuildTimer, timers, lastCamCheck, sinceEdit,
                   rebuildCount, appPc>>
    /\ UNCHANGED <<clampVars, lodVars, towerVars, colVars, profVars, codecVars, complexVars, editorVars>>

\* maybeUpdateDetail() ignoring the timer handle
maybeUpdateDetail_IgnoreTimer ==
    /\ appPc = "running"
    /\ IF lastCamCheck.age < CheckInterval
       THEN UNCHANGED appVars
       ELSE /\ lastCamCheck' = [pos |-> camera, age |-> 0]
            /\ IF computeDetailSignature(state, camera) # lastDetailKey
               THEN RebuildCall(FALSE, camera)
               ELSE UNCHANGED <<state, camera, temple, scene, disposed, overlay,
                                hasFittedView, lastBounds, lastDetailKey, rebuildCount>>
            /\ UNCHANGED <<rebuildTimer, timers, sinceEdit, appPc>>
    /\ UNCHANGED <<clampVars, lodVars, towerVars, colVars, profVars, codecVars, complexVars, editorVars>>

\* maybeUpdateDetail() rebuilding whatever the signature is
maybeUpdateDetail_Unconditional ==
    /\ appPc = "running"
    /\ IF lastCamCheck.age < CheckInterval
       THEN UNCHANGED appVars
       ELSE /\ lastCamCheck' = [pos |-> camera, age |-> 0]
            /\ IF rebuildTimer = 0
               THEN RebuildCall(FALSE, camera)
               ELSE UNCHANGED <<state, camera, temple, scene, disposed, overlay,
                                hasFittedView, lastBounds, lastDetailKey, rebuildCount>>
            /\ UNCHANGED <<rebuildTimer, timers, sinceEdit, appPc>>
    /\ UNCHANGED <<clampVars, lodVars, towerVars, colVars, profVars, codecVars, complexVars, editorVars>>

\* one frame of the animation loop: maybeUpdateDetail()
maybeUpdateDetail ==
    /\ appPc = "running"
    /\ IF lastCamCheck.age < CheckInterval
       THEN UNCHANGED appVars
       ELSE /\ lastCamCheck' = [pos |-> camera, age |-> 0]
            /\ IF computeDetailSignature(state, camera) # lastDetailKey /\ rebuildTimer = 0
               THEN RebuildCall(FALSE, camera)
               ELSE UNCHANGED <<state, camera, temple, scene, disposed, overlay,
                                hasFittedView, lastBounds, lastDetailKey, rebuildCount>>
            /\ UNCHANGED <<rebuildTimer, timers, sinceEdit, appPc>>
    /\ UNCHANGED <<clampVars, lodVars, towerVars, colVars, profVars, codecVars, complexVars, editorVars>>

\* time passes; a timer whose delay has passed runs before more time does
Advance(d) ==
    /\ appPc = "running"
    /\ \A t \in timers : d <= t.left
    /\ timers' = {[t EXCEPT !.left = @ - d] : t \in timers}
    /\ lastCamCheck' = [lastCamCheck EXCEPT !.age = Min(CheckInterval, @ + d)]
    /\ sinceEdit' = Min(DebounceDelay, sinceEdit + d)
    /\ UNCHANGED <<state, camera, temple, scene, disposed, overlay, hasFittedView,
                   lastBounds, lastDetailKey, rebuildTimer, rebuildCount, appPc>>
    /\ UNCHANGED <<clampVars, lodVars, towerVars, colVars, profVars, codecVars, complexVars, editorVars>>

Next ==
    \/ InitialRebuild
    \/ FinishLoad
    \/ \E k \in EditedKnobs : \E v \in EditValues(k) : EditKnob(k, v)
    \/ TimerFires
    \/ Refit
    \/ \E pos \in CameraPositions : CameraMove(pos)
    \/ maybeUpdateDetail
    \/ \E d \in TimeSteps : Advance(d)

Spec == Init /\ [][Next]_vars

\* A step in which rebuild ran and buildTempleComplex threw: rebuild was
\* called and `temple` was not replaced.
FailedRebuild == rebuildCount' # rebuildCount /\ temple' = temple

\* C2 as stated: a rebuild whose build throws reports a build error and
\* leaves the tree displayed before it installed in the scene and
\* undisposed; the scene never holds a tree other than the complete one
\* `temple` refers to, and `temple` never refers to a tree that has been
\* removed from the scene or disposed.
C2_FailedRebuildKeepsTree ==
    /\ [][FailedRebuild =>
             /\ overlay' = "Build error"
             /\ temple # NoTree => (temple.id \in scene' /\ temple.id \notin disposed')]_vars
    /\ [](scene \subseteq (IF temple = NoTree THEN {} ELSE {temple.id}))
    /\ [](temple # NoTree => (temple.id \in scene /\ temple.id \notin disposed))

\* A step in which maybeUpdateDetail went past its throttle and recorded the
\* camera: no other step sets the age of lastCamCheck back to 0.
DetailCheckRuns == lastCamCheck' # lastCamCheck /\ lastCamCheck'.age = 0

\* C14 as stated: whenever a periodic detail check finds that the detail
\* signature for the current camera position differs from the recorded one
\* and no debounced rebuild is waiting to fire, the check performs a rebuild.
C14_CheckRebuilds ==
    [][(/\ DetailCheckRuns
        /\ computeDetailSignature(state, camera) # lastDetailKey
        /\ timers = {})
       => rebuildCount' = rebuildCount + 1]_vars

\* A step in which the periodic check called rebuild.
DetailRebuild == DetailCheckRuns /\ rebuildCount' # rebuildCount

\* the tracked towers whose classification for the camera differs from the
\* one recorded in lastDetailKey
ChangedEntries ==
    LET sig == computeDetailSignature(state, camera)
    IN  {i \in DOMAIN sig : i \notin DOMAIN lastDetailKey \/ sig[i] # lastDetailKey[i]}

\* C15: a periodic check rebuilds only if the classification of a tracked
\* tower, computed for the current camera position, differs from the one
\* recorded by the last rebuild that recorded one (or none was recorded);
\* a check that finds every classification as recorded does not rebuild,
\* wherever the camera has moved; and a check runs only when at least
\* 250 ms have passed since the check before it.
C15_RebuildOnlyOnChange ==
    /\ [][DetailRebuild => ChangedEntries # {}]_vars
    /\ [][(DetailCheckRuns /\ ChangedEntries = {}) => rebuildCount' = rebuildCount]_vars
    /\ [][DetailCheckRuns => lastCamCheck.age >= CheckInterval]_vars
    /\ [][(camera' # camera /\ rebuildCount' # rebuildCount) => ~DetailCheckRuns \/ ChangedEntries # {}]_vars

\* the periodic check has rebuilt for a camera that left the position the
\* scene was loaded for: no slider was touched, and "Scene updated" is
\* written by no other rebuild before the first edit
C15_Witness ==
    /\ rebuildTimer = 0
    /\ overlay = "Scene updated"
    /\ lastCamCheck.pos # InitialCamera
    /\ lastCamCheck.age = 0

\* C17: the periodic check never calls rebuild while a debounce timer is
\* pending (nor while the handle of one is held), and rebuild, which is
\* synchronous and calls nothing that calls rebuild, runs at most once in
\* the step of any handler.
C17_NoRebuildWhilePending ==
    /\ [][DetailRebuild => (timers = {} /\ rebuildTimer = 0)]_vars
    /\ [][(DetailCheckRuns /\ timers # {}) => rebuildCount' = rebuildCount]_vars
    /\ [][rebuildCount' \in {rebuildCount, rebuildCount + 1}]_vars

\* a check has just run with a debounce timer pending and has left in place
\* a tree whose recorded signature differs from the camera's
C17_Witness ==
    /\ timers # {}
    /\ lastCamCheck = [pos |-> camera, age |-> 0]
    /\ lastDetailKey # <<>>
    /\ computeDetailSignature(state, camera) # lastDetailKey

\* A step in which rebuild ran.
RebuildStep == rebuildCount' # rebuildCount

\* C19: every rebuild takes the tree `temple` refers to out of the scene and
\* disposes it, and only then may replace the reference; the tree it
\* installs is a new object, built by buildTempleComplex from the clamped
\* state and the camera position alone; and the scene never holds more than
\* one complex root.
C19_OldTreeReleased ==
    /\ [][(RebuildStep /\ temple # NoTree) =>
             (temple.id \notin scene' /\ temple.id \in disposed')]_vars
    /\ [][(RebuildStep /\ temple' # temple) =>
             /\ temple'.id \notin scene \cup disposed \cup {temple.id}
             /\ temple'.towers = buildTempleComplex(state', camera)
             /\ scene' = {temple'.id}]_vars
    /\ [][temple' # temple => RebuildStep]_vars
    /\ [](Cardinality(scene) <= 1)

\* a second rebuild has replaced the tree of the first: the first is out of
\* the scene and disposed, the second is the one complex root of the scene
C19_Witness ==
    /\ rebuildCount = 2
    /\ temple # NoTree
    /\ temple.id = 2
    /\ scene = {2}
    /\ disposed = {1}

\* the perimeter towers of the installed tree, in the order they were added
InstalledPerimeter == SelectSeq(temple.towers, LAMBDA t : t.kind = "tower")

\* the central shrine of the installed tree
CentralShrine == CHOOSE t \in {temple.towers[n] : n \in 1..Len(temple.towers)} : t.kind = "shrine"

\* the entries of the recorded signature but the last are the details the
\* perimeter towers were built with, in the order of their placement
PerimeterEntriesMatch ==
    temple # NoTree =>
        /\ Len(lastDetailKey) = Len(InstalledPerimeter) + 1
        /\ \A n \in 1..Len(InstalledPerimeter) : lastDetailKey[n] = InstalledPerimeter[n].detail

\* C28 as stated: the recorded detail signature lists, in placement order,
\* the detail level each perimeter tower of the installed tree was built
\* with, one entry per perimeter tower, plus one entry for the central shrine
\* that is the detail the shrine was built with.
C28_SignatureMatchesTree ==
    temple # NoTree =>
        /\ PerimeterEntriesMatch
        /\ lastDetailKey[Len(lastDetailKey)] = CentralShrine.detail

\* getMaterial(key, params): the one material materialCache holds for the
\* key, made at the first call and returned by every later one
getMaterial(key) == [kind |-> "material", tree |-> 0, key |-> key]

\* what the build of tree `id` makes anew: the geometries of its meshes,
\* graniteMaterial() of its walls and the material of its tank
FreshResources(id) ==
    { [kind |-> "geometry", tree |-> id, key |-> "mesh"],
      [kind |-> "material", tree |-> id, key |-> "granite"],
      [kind |-> "material", tree |-> id, key |-> "tank"] }

\* the geometries and materials the meshes of tree `id` refer to: a tree has
\* towers, and the base of every tower is made with materials.stone()
TreeResources(id) == FreshResources(id) \cup {getMaterial("stone")}

\* what disposeObject has called dispose() on
DisposedResources == UNION {TreeResources(id) : id \in disposed}

\* what a rebuild makes anew is not disposed while its tree is installed
FreshResourcesLive ==
    (temple # NoTree /\ temple.id \in scene) =>
        FreshResources(temple.id) \cap DisposedResources = {}

\* C30 as stated: after any sequence of rebuilds no material or geometry
\* that the installed tree refers to has been disposed: disposing the
\* discarded tree releases only what the new tree does not refer to.
C30_NoDisposedResource ==
    (temple # NoTree /\ temple.id \in scene) =>
        TreeResources(temple.id) \cap DisposedResources = {}

-----------------------------------------------------------------------------
(* SpecTamper: the loaded application whose shared state object is also    *)
(* written from outside the sliders, with values the sliders cannot give:  *)
(* out of range or not finite numbers.                                     *)

\* the knobs written from outside: one that buildTower alone reads, and one
\* of the bounds the detail signature is computed from
TamperedKnobs == {"striations", "lodNear"}

\* the values written: one below the range and NaN for the knob the
\* signature does not read, one above the range for the other
TamperValues(k) ==
    IF k = "striations"
    THEN {Num(ranges[k].min - ranges[k].step)} \cup {r \in NonFinite : r.type = "NaN"}
    ELSE {Num(ranges[k].max + ranges[k].step)}

\* state[k] = value, by code other than a slider; no rebuild is scheduled
Tamper(k, value) ==
    /\ appPc = "running"
    /\ state' = [state EXCEPT ![k] = value]
    /\ UNCHANGED <<camera, temple, scene, disposed, overlay, hasFittedView, lastBounds,
                   lastDetailKey, rebuildTimer, timers, lastCamCheck, sinceEdit,
                   rebuildCount, appPc>>
    /\ UNCHANGED <<clampVars, lodVars, towerVars, colVars, profVars, codecVars, complexVars, editorVars>>

TamperNext ==
    \/ InitialRebuild
    \/ FinishLoad
    \/ \E k \in TamperedKnobs : \E value \in TamperValues(k) : Tamper(k, value)
    \/ \E k \in EditedKnobs : EditKnob(k, ranges[k].max)
    \/ TimerFires
    \/ Refit
    \/ maybeUpdateDetail
    \/ Advance(DebounceDelay)

SpecTamper == Init /\ [][TamperNext]_vars

\* every knob of st is a finite number inside its declared range
InRanges(st) ==
    \A k \in Knobs :
        /\ IsFiniteNumber(st[k])
        /\ ranges[k].min <= st[k].v
        /\ st[k].v <= ranges[k].max

\* C26: every rebuild, whoever calls it, leaves in the shared state the
\* result of clampState on what the state held, every knob of which is a
\* finite number in its range; the tree it installs is built from that
\* state, and so is the state the central shrine's buildTower receives;
\* clampState gives such a result on whatever the state holds.
C26_ClampBeforeBuild ==
    /\ [][RebuildStep =>
             /\ state' = clampState(state)
             /\ InRanges(state')
             /\ InRanges(shrineState(state'))
             /\ temple' # temple => temple'.towers = buildTempleComplex(state', camera)]_vars
    /\ [](InRanges(clampState(state)))
    /\ [](InRanges(shrineState(clampState(state))))

\* a rebuild has run on a state whose striations knob was below its range
\* and has left the least value of the range in it
C26_Witness ==
    /\ rebuildCount = 2
    /\ temple # NoTree
    /\ temple.id = 2
    /\ state["striations"] = Num(ranges["striations"].min)
    /\ InRanges(state)

-----------------------------------------------------------------------------
(* SpecEditor: the profile editor.  The text area is typed in, its change  *)
(* event runs the handler of appendProfileEditor, and "Reset profile" runs *)
(* profileModel.reset.                                                     *)

\* a coordinate of defaultProfile (millionths) as a coordinate of a text
ToCoord(v) == Coord(v < 0, Abs(v) * Pow(10, CoordDigits - FixedDigits))

\* cloneProfile(points): every point as { x, y }, the numbers as they are
cloneProfile(points) ==
    [n \in 1..Len(points) |-> <<ToCoord(points[n][1]), ToCoord(points[n][2])>>]

\* what is typed: "1,2;3,4", "1,2\n3,x\n5\n7,8" and "" hold fewer than three
\* valid points; "0 0;4 0;4,3" holds three and "0,0\nx,1\n2,0\n-1.5,2" three
\* and a line that is no point
TypedTexts ==
    { <<"1", ",", "2", ";", "3", ",", "4">>,
      <<"1", ",", "2", "\n", "3", ",", "x", "\n", "5", "\n", "7", ",", "8">>,
      <<>>,
      <<"0", " ", "0", ";", "4", " ", "0", ";", "4", ",", "3">>,
      <<"0", ",", "0", "\n", "x", ",", "1", "\n", "2", ",", "0", "\n",
        "-", "1", ".", "5", ",", "2">> }

EditorInit ==
    /\ ClampIdle
    /\ LodIdle
    /\ TowerIdle
    /\ ColIdle
    /\ ProfIdle
    /\ CodecIdle
    /\ ComplexIdle
    /\ AppIdle
    /\ edPoints = cloneProfile(defaultProfile)
    /\ edModelText = pointsToString(cloneProfile(defaultProfile))
    /\ edTextarea = pointsToString(cloneProfile(defaultProfile))
    /\ edDirty = FALSE

\* the user types: the text area holds `text`, no handler of main.js runs
TypeText(text) ==
    /\ appPc = "running"
    /\ text # edTextarea
    /\ edTextarea' = text
    /\ edDirty' = TRUE
    /\ UNCHANGED <<edPoints, edModelText>>
    /\ UNCHANGED <<clampVars, lodVars, towerVars, colVars, profVars, codecVars, appVars, complexVars>>

\* The change handler without its test of parsed.length.
ProfileChange_NoCheck ==
    /\ appPc = "running"
    /\ edDirty
    /\ edDirty' = FALSE
    /\ LET parsed == parseProfileText(edTextarea)
       IN  /\ edPoints' = parsed
           /\ edModelText' = pointsToString(parsed)
           /\ edTextarea' = pointsToString(parsed)
           /\ scheduleRebuild
           /\ sinceEdit' = 0
           /\ UNCHANGED <<state, camera, temple, scene, disposed, overlay,
                          hasFittedView, lastBounds, lastDetailKey, lastCamCheck,
                          rebuildCount, appPc>>
    /\ UNCHANGED <<clampVars, lodVars, towerVars, colVars, profVars, codecVars, complexVars>>

\* textarea.addEventListener("change", ...): the text area lost the focus
\* with a text that was typed in
ProfileChange ==
    /\ appPc = "running"
    /\ edDirty
    /\ edDirty' = FALSE
    /\ LET parsed == parseProfileText(edTextarea)
       IN  IF Len(parsed) < MinProfilePoints
           THEN /\ edTextarea' = edModelText
                /\ UNCHANGED <<edPoints, edModelText>>
                /\ UNCHANGED appVars
           ELSE /\ edPoints' = parsed
                /\ edModelText' = pointsToString(parsed)
                /\ edTextarea' = pointsToString(parsed)
                /\ scheduleRebuild
                /\ sinceEdit' = 0
                /\ UNCHANGED <<state, camera, temple, scene, disposed, overlay,
                               hasFittedView, lastBounds, lastDetailKey, lastCamCheck,
                               rebuildCount, appPc>>
    /\ UNCHANGED <<clampVars, lodVars, towerVars, colVars, profVars, codecVars, complexVars>>

\* profileModel.reset(); the click that runs it takes the focus from the
\* text area first, so no typed text is pending
ProfileReset ==
    /\ appPc = "running"
    /\ ~edDirty
    /\ edPoints' = cloneProfile(defaultProfile)
    /\ edModelText' = pointsToString(cloneProfile(defaultProfile))
    /\ edTextarea' = pointsToString(cloneProfile(defaultProfile))
    /\ scheduleRebuild
    /\ sinceEdit' = 0
    /\ UNCHANGED edDirty
    /\ UNCHANGED <<state, camera, temple, scene, disposed, overlay, hasFittedView,
                   lastBounds, lastDetailKey, lastCamCheck, rebuildCount, appPc>>
    /\ UNCHANGED <<clampVars, lodVars, towerVars, colVars, profVars, codecVars, complexVars>>

EditorNext ==
    \/ InitialRebuild
    \/ FinishLoad
    \/ \E text \in TypedTexts : TypeText(text)
    \/ ProfileChange
    \/ ProfileReset
    \/ TimerFires
    \/ Advance(DebounceDelay)

SpecEditor == EditorInit /\ [][EditorNext]_vars

\* a change event on a text that parses to fewer than three valid points
RejectedEdit ==
    /\ edDirty /\ ~edDirty'
    /\ Len(parseProfileText(edTextarea)) < MinProfilePoints

\* a profile of at least three points, every coordinate a finite number
StoredProfileValid ==
    /\ Len(edPoints) >= MinProfilePoints
    /\ \A n \in 1..Len(edPoints) : \A a \in 1..2 : edPoints[n][a].type = "number"

\* C27: a profile text edit that parses to fewer than 3 valid points leaves
\* state.profilePoints unchanged, puts the last accepted text back into the
\* text area and schedules no rebuild; after any sequence of profile edits
\* and resets the stored profile has at least 3 points, all with finite
\* coordinates, and profileModel.text is the text of the stored profile.
C27_RejectedEdit ==
    /\ [][RejectedEdit => /\ edPoints' = edPoints
                          /\ edModelText' = edModelText
                          /\ edTextarea' = edModelText
                          /\ rebuildTimer' = rebuildTimer
                          /\ timers' = timers]_vars
    /\ [](StoredProfileValid)
    /\ [](edModelText = pointsToString(edPoints))

\* an edit of fewer than three valid points is about to be committed on
\* top of an accepted one, whose rebuild is still pending
C27_Witness ==
    /\ edDirty
    /\ Len(parseProfileText(edTextarea)) < MinProfilePoints
    /\ Len(edPoints) = MinProfilePoints
    /\ rebuildTimer # 0
    /\ ENABLED ProfileChange

-----------------------------------------------------------------------------
(* SpecBeads: the loaded application with the "Beads" slider and a camera  *)
(* that orbits between its first position and one that is nearer than      *)
(* beadDistance to the north tower of the outer enclosure.                 *)

\* 680 units from the north tower at (0, 0, 790), which is 867 units from
\* the first position; every tracked tower keeps its detail level
BeadCamera == <<600, 300, 900>>

BeadCameraPositions == {InitialCamera, BeadCamera}

BeadsNext ==
    \/ InitialRebuild
    \/ FinishLoad
    \/ EditKnob("beadEnabled", ranges["beadEnabled"].max)
    \/ TimerFires
    \/ \E pos \in BeadCameraPositions : CameraMove(pos)
    \/ maybeUpdateDetail
    \/ \E d \in TimeSteps : Advance(d)

SpecBeads == Init /\ [][BeadsNext]_vars

\* buildTower adds a bead rail to the layers of tower t
CarriesBeadRails(t) == t.detail = "high" /\ t.beadVisible

\* every perimeter tower of the installed tree (the one in the scene)
\* carries bead rails iff beadEnabled is set, its detail is High and it is
\* nearer to the viewer than beadDistance
BeadsUpToDate ==
    (temple # NoTree /\ temple.id \in scene) =>
        \A n \in 1..Len(temple.towers) :
            LET t == temple.towers[n]
            IN  t.kind = "tower" =>
                    (CarriesBeadRails(t) <=>
                        /\ Knob(state, "beadEnabled") # 0
                        /\ t.detail = "high"
                        /\ Nearer(DistSq(camera, t.pos), Knob(state, "beadDistance")))

\* C29 as stated: after each periodic detail check that runs with no rebuild
\* pending, every perimeter tower of the installed tree carries bead rails
\* iff beadEnabled is set, its detail is High and its current distance to
\* the viewer is below beadDistance.
C29_BeadRailsCurrent ==
    [][(DetailCheckRuns /\ timers = {}) => BeadsUpToDate']_vars

\* The same for the checks alone that find the signature unchanged, with the
\* stored state what the tree was built from: the camera crossed nothing but
\* a beadDistance threshold.
BeadOnlyCrossing ==
    [][(/\ DetailCheckRuns
        /\ timers = {}
        /\ temple # NoTree
        /\ temple.towers = buildTempleComplex(state, lastCamCheck.pos)
        /\ computeDetailSignature(state, camera) = lastDetailKey)
       => BeadsUpToDate']_vars

-----------------------------------------------------------------------------
(* SpecDebounce: the parameter-change events and the debounce timer, with  *)
(* the timer run by the browser once its delay has passed and time never   *)
(* standing still.                                                         *)

NextDebounce ==
    \/ InitialRebuild
    \/ FinishLoad
    \/ \E k \in EditedKnobs : \E v \in EditValues(k) : EditKnob(k, v)
    \/ TimerFires
    \/ \E d \in TimeSteps : Advance(d)

SpecDebounce ==
    /\ Init
    /\ [][NextDebounce]_vars
    /\ WF_vars(TimerFires)
    /\ WF_vars(\E d \in TimeSteps : Advance(d))

\* A step in which a parameter-change handler ran: scheduleRebuild replaces
\* the handle held.
EditStep == rebuildTimer' # rebuildTimer

\* A step in which the debounce timer ran rebuild.
DebouncedRebuild == timers' # timers /\ rebuildCount' # rebuildCount

\* C16: the debounce timer runs rebuild only when 120 ms have passed since
\* the last parameter-change event, so a burst of events less than 120 ms
\* apart causes no rebuild before its last event and one after it; the
\* timer that runs is the one the last event set, it rebuilds from the
\* state that event left (clamped) and it leaves no timer pending; at most
\* one timer is pending at any moment; a pending timer goes away only by
\* running or by being replaced in a later event; and once events stop,
\* the timer runs (as long as the model's bound on rebuilds allows one).
C16_Debounce ==
    /\ [][DebouncedRebuild =>
             /\ sinceEdit = DebounceDelay
             /\ timers = {[id |-> rebuildTimer, left |-> 0]}
             /\ timers' = {}
             /\ state' = clampState(state)]_vars
    /\ [][(timers # {} /\ ~EditStep) => state' \in {state, clampState(state)}]_vars
    /\ [](Cardinality(timers) <= 1)
    /\ [][(timers # {} /\ timers' = {}) => DebouncedRebuild]_vars
    /\ [][EditStep => timers' = {[id |-> rebuildTimer', left |-> DebounceDelay]}]_vars
    /\ (<>[][~EditStep]_vars => <>[](timers = {} \/ rebuildCount = MaxRebuilds))

\* two events 60 ms apart were followed, 120 ms after the second, by the
\* one rebuild of the burst, which rebuilt from the state the second left
C16_Witness ==
    /\ rebuildTimer = 2
    /\ timers = {}
    /\ sinceEdit = DebounceDelay
    /\ rebuildCount = 2
    /\ overlay = "Scene updated"
    /\ temple.id = 2

-----------------------------------------------------------------------------
(* SpecSliders: the "LOD near" and "LOD far" sliders of the loaded         *)
(* application, set in any order to values of their declared ranges.       *)

\* the values the "LOD near" slider is set to
SliderNearValues ==
    LET n == ranges.lodNear
        f == ranges.lodFar
    IN  {n.min, n.min + n.step, n.default, n.max - n.step, n.max,
         f.min - f.step, f.min, f.min + f.step}

\* the values the "LOD far" slider is set to
SliderFarValues ==
    LET n == ranges.lodNear
        f == ranges.lodFar
    IN  {f.min, f.min + f.step, f.default, f.max - f.step, f.max,
         n.default - n.step, n.default, n.max, n.max + n.step}

SlidersNext ==
    \/ InitialRebuild
    \/ FinishLoad
    \/ \E v \in SliderNearValues : EditLodNear(v)
    \/ \E v \in SliderFarValues : EditLodFar(v)

SpecSliders == Init /\ [][SlidersNext]_vars

\* C18: from the default state and after any sequence of edits of the two
\* LOD sliders, the stored lodFar is greater than the stored lodNear and
\* both lie in their declared ranges; an edit leaves the edited bound at the
\* slider's value, moves the other bound only if the edited one has reached
\* or crossed it, and changes nothing else of the state.
C18_SlidersKeepOrder ==
    /\ [](/\ Knob(state, "lodFar") > Knob(state, "lodNear")
          /\ Knob(state, "lodNear") >= ranges.lodNear.min
          /\ Knob(state, "lodNear") <= ranges.lodNear.max
          /\ Knob(state, "lodFar") >= ranges.lodFar.min
          /\ Knob(state, "lodFar") <= ranges.lodFar.max)
    /\ [][EditStep =>
             /\ \A k \in (DOMAIN state) \ {"lodNear", "lodFar"} : state'[k] = state[k]
             /\ \/ /\ Knob(state', "lodNear") \in SliderNearValues
                   /\ \/ state'.lodFar = state.lodFar
                      \/ Knob(state', "lodNear") >= Knob(state, "lodFar")
                \/ /\ Knob(state', "lodFar") \in SliderFarValues
                   /\ \/ state'.lodNear = state.lodNear
                      \/ Knob(state', "lodFar") <= Knob(state, "lodNear")]_vars

\* each slider has pushed the other bound: lodNear was set to its greatest
\* value, which moved lodFar, and lodFar was then set to its least value,
\* which moved lodNear
C18_Witness ==
    /\ rebuildTimer = 2
    /\ Knob(state, "lodFar") = ranges.lodFar.min
    /\ Knob(state, "lodNear") = ranges.lodFar.min - LodCorrection

-----------------------------------------------------------------------------
(* SpecBase: the base prism of buildTower, for every scaleX and scaleZ on  *)
(* the slider steps and for the default profile, the empty profile and a   *)
(* square.                                                                 *)

ScaleSteps == {ranges.scaleX.min + n * ranges.scaleX.step :
                  n \in 0..((ranges.scaleX.max - ranges.scaleX.min) \div ranges.scaleX.step)}

BaseStates ==
    {[defaultState EXCEPT !["scaleX"] = Num(x), !["scaleZ"] = Num(z)] :
        x \in ScaleSteps, z \in ScaleSteps}

BaseProfiles ==
    {defaultProfile, <<>>,
     << <<0, 0>>, <<PQ, 0>>, <<PQ, PQ>>, <<0, PQ>> >>}

BaseInit ==
    /\ ComplexIdle
    /\ EditorIdle
    /\ AppIdle
    /\ CodecIdle
    /\ ColIdle
    /\ LodIdle
    /\ ClampIdle
    /\ twSt \in BaseStates
    /\ twDist = 0
    /\ twNoise = <<0>>
    /\ twDetail = "none"
    /\ twTower = [layers |-> <<>>]
    /\ twPc = "input"
    /\ profIn \in BaseProfiles
    /\ profTarget = [width |-> 0, depth |-> 0, inset |-> 0]
    /\ profShape = NoShape
    /\ profPc = "input"

\* const base = buildProfiledPrism(baseW, baseD, baseH, ..., profilePoints, tierSteps(state))
BasePrism ==
    /\ profPc = "input"
    /\ profTarget' = [width |-> baseW(twSt), depth |-> baseD(twSt), inset |-> PrismInset]
    /\ profShape' = buildProfiledPrism(baseW(twSt), baseD(twSt), profIn, tierSteps)
    /\ profPc' = "done"
    /\ UNCHANGED profIn
    /\ UNCHANGED <<clampVars, lodVars, towerVars, colVars, codecVars, appVars, complexVars, editorVars>>

BaseNext == BasePrism

SpecBase == BaseInit /\ [][BaseNext]_vars

\* extent of the outline on an axis, in the units its vertices are held in
OutlineExtent(shape, axis) ==
    SetMax(Coordinates(shape.vertices, axis)) - SetMin(Coordinates(shape.vertices, axis))

\* The extent of the outline on an axis differs from size by at most pct
\* percent: size * (100 - pct) / 100 <= extent / unit * s.n / s.d, and the
\* same from above.
ExtentWithin(shape, axis, size, pct) ==
    LET factor == IF axis = 1 THEN shape.sx ELSE shape.sy
        extent == [n |-> OutlineExtent(shape, axis), d |-> factor.d]
        low == [n |-> size * (100 - pct) * (shape.unit \div 100), d |-> factor.n]
        high == [n |-> size * (100 + pct) * (shape.unit \div 100), d |-> factor.n]
    IN  ~FracLess(extent, low) /\ ~FracLess(high, extent)

DefaultScenario ==
    /\ profPc = "done"
    /\ profIn = defaultProfile
    /\ Knob(twSt, "scaleX") = Q
    /\ Knob(twSt, "scaleY") = Q
    /\ Knob(twSt, "scaleZ") = Q
    /\ Knob(twSt, "striations") = 12 * Q

\* C11: with the default profile, unit scales and 12 striations the base
\* prism's outline is not the fallback and its bounding footprint is within
\* 2 % of 250 x 180 on each axis.
C11_DefaultFootprint ==
    DefaultScenario =>
        /\ ~profShape.fallback
        /\ ExtentWithin(profShape, 1, BaseWidth, 2)
        /\ ExtentWithin(profShape, 2, BaseDepth, 2)

\* The default scenario has been built: the fitted outline is the default
\* profile closed, unrotated, 245 units wide.
C11_Witness ==
    /\ DefaultScenario
    /\ ~profShape.fallback
    /\ ~profShape.rotated
    /\ Len(profShape.vertices) >= Len(defaultProfile)
    /\ ExtentWithin(profShape, 1, 245, 0)

-----------------------------------------------------------------------------
(* SpecComplex: buildTempleComplex on clamped states that differ in        *)
(* innerWalls, wallSpacing, wallThickness and the LOD bounds, seen from    *)
(* several viewer positions.                                               *)

ComplexStates ==
    {[defaultState EXCEPT !["innerWalls"] = Num(iw), !["wallSpacing"] = Num(ws),
                          !["wallThickness"] = Num(wt),
                          !["lodNear"] = Num(lod[1]), !["lodFar"] = Num(lod[2])] :
        iw \in {0, 1000, 1500, 2000, 3000},
        ws \in {150000, 390000, 400000, 600000, 800000},
        wt \in {40000, 200000},
        lod \in {<<1250000, 2500000>>, <<300000, 700000>>}}

ComplexCameras == {InitialCamera, <<0, 0, 0>>, <<0, 300, 1200>>, <<1900, 800, 1400>>}

ComplexInit ==
    /\ EditorIdle
    /\ AppIdle
    /\ CodecIdle
    /\ ProfIdle
    /\ ColIdle
    /\ TowerIdle
    /\ LodIdle
    /\ ClampIdle
    /\ cxSt \in ComplexStates
    /\ cxCam \in ComplexCameras
    /\ cxTowers = <<>>
    /\ cxPc = "input"

\* The call buildTempleComplex(cxSt, cxCam).
ComplexCall ==
    /\ cxPc = "input"
    /\ cxTowers' = buildTempleComplex(cxSt, cxCam)
    /\ cxPc' = "done"
    /\ UNCHANGED <<cxSt, cxCam>>
    /\ UNCHANGED <<clampVars, lodVars, towerVars, colVars, profVars, codecVars, appVars, editorVars>>

ComplexNext == ComplexCall

SpecComplex == ComplexInit /\ [][ComplexNext]_vars

PerimeterTowers == SelectSeq(cxTowers, LAMBDA t : t.kind = "tower")

\* floor(innerWalls)
FloorInnerWalls == Knob(cxSt, "innerWalls") \div Q

\* The inner enclosures that are wider than 300 units:
\* 1500 - wallSpacing * (i + 1) > 300.
WideEnclosures ==
    Cardinality({i \in 1..FloorInnerWalls : Knob(cxSt, "wallSpacing") * i < 1200 * Q})

\* The four towers of group g stand at +o and -o on the z axis and at +o
\* and -o on the x axis, for one o > 0.
SymmetricGroup(g) ==
    LET o == PerimeterTowers[4 * g + 1].pos[3]
    IN  /\ o > 0
        /\ PerimeterTowers[4 * g + 1].pos = <<0, 0, o>>
        /\ PerimeterTowers[4 * g + 2].pos = <<0, 0, -o>>
        /\ PerimeterTowers[4 * g + 3].pos = <<o, 0, 0>>
        /\ PerimeterTowers[4 * g + 4].pos = <<-o, 0, 0>>

\* The tower's detail is the class of its own distance to the viewer.
ClassifiedByOwnDistance(t) ==
    LET d2 == DistSq(cxCam, t.pos)
        near == Min(Knob(cxSt, "lodNear"), Knob(cxSt, "lodFar") - LodGap) \div 100
        far == Max(Knob(cxSt, "lodFar") \div 100, near + LodGap \div 100)
    IN  /\ t.detail = "high" <=> d2 < near * near
        /\ t.detail = "medium" <=> (d2 >= near * near /\ d2 < far * far)
        /\ t.detail = "low" <=> d2 >= far * far

TowersWellPlaced ==
    /\ Len(PerimeterTowers) % 4 = 0
    /\ \A g \in 0..((Len(PerimeterTowers) \div 4) - 1) : SymmetricGroup(g)
    /\ \A n \in 1..Len(PerimeterTowers) : ClassifiedByOwnDistance(PerimeterTowers[n])

\* C12 as stated: the complex holds 4 * (1 + floor(innerWalls)) perimeter
\* towers, each at a symmetric offset and classified by its own distance.
C12_Original ==
    cxPc = "done" =>
        /\ Len(PerimeterTowers) = 4 * (1 + FloorInnerWalls)
        /\ TowersWellPlaced

\* C12 as amended: the complex holds 4 * (1 + n) perimeter towers, n the
\* number of inner enclosures among the first floor(innerWalls) that are
\* wider than 300 units; each tower stands at a symmetric offset and is
\* classified by its own distance to the viewer.
C12_PerimeterTowers ==
    cxPc = "done" =>
        /\ Len(PerimeterTowers) = 4 * (1 + WideEnclosures)
        /\ TowersWellPlaced

\* Three inner walls 600 apart: one inner enclosure, eight towers, and the
\* towers of one complex differ in detail.
C12_Witness ==
    /\ cxPc = "done"
    /\ FloorInnerWalls = 3
    /\ Knob(cxSt, "wallSpacing") = 600 * Q
    /\ Len(PerimeterTowers) = 8
    /\ \E a, b \in 1..8 : PerimeterTowers[a].detail # PerimeterTowers[b].detail

-----------------------------------------------------------------------------
(* SpecShrine: the tower placeCentralShrine builds, for states that differ *)
(* in striations, visibleTiers, the scales and the bead switch, with the   *)
(* viewer at several distances from the shrine.                            *)

ShrineStates ==
    {[st EXCEPT !["scaleX"] = Num(x), !["scaleY"] = Num(x), !["scaleZ"] = Num(x)] :
        st \in TowerStates, x \in {500, 1000, 2000}}

ShrineInit ==
    /\ ComplexIdle
    /\ EditorIdle
    /\ AppIdle
    /\ CodecIdle
    /\ ProfIdle
    /\ ColIdle
    /\ LodIdle
    /\ ClampIdle
    /\ twSt \in ShrineStates
    /\ twDist \in TowerDistances
    /\ twNoise \in NoiseFields
    /\ twDetail = "none"
    /\ twTower = [layers |-> <<>>]
    /\ twPc = "input"

\* placeCentralShrine(group, state), with the viewer twDist away
PlaceShrine ==
    /\ twPc = "input"
    /\ twDetail' = "medium"
    /\ twTower' = centralShrine(twSt, twNoise)
    /\ twPc' = "done"
    /\ UNCHANGED <<twSt, twDist, twNoise>>
    /\ UNCHANGED <<clampVars, lodVars, colVars, profVars, codecVars, appVars, complexVars, editorVars>>

ShrineNext == PlaceShrine

SpecShrine == ShrineInit /\ [][ShrineNext]_vars

\* min(striations, visibleTiers, 6), in thousandths
ShrineCap == Min(Min(Knob(twSt, "striations"), Knob(twSt, "visibleTiers")), 6 * Q)

=============================================================================
